---- MODULE Spec2Model ----
(***************************************************************************)
(* A model of fastspace-schema-form: the condition evaluator               *)
(* (core/engine/condition.ts), the compute evaluator (same file), the      *)
(* schema parser (core/parser/schemaParser.ts), the field state engine     *)
(* (core/engine/fieldState.ts), the validation adapter                     *)
(* (core/validation/valibotAdapter.ts) and the form component with its     *)
(* effects (ui/components/FieldRenderer.tsx, ui/widgets/FormListWidget.tsx).*)
(*                                                                         *)
(* Each component has its own specification (SpecCondition, SpecCompute,   *)
(* SpecIsolation, SpecExtract, SpecParser, SpecDownstream, SpecFieldState, *)
(* SpecAllStates, SpecWatch, SpecRender, SpecResolver, SpecForm, SpecList, *)
(* SpecAsync).  A specification starts with every variable idle.  The      *)
(* specifications of the pure functions apply one exported function to     *)
(* inputs drawn from bounded sets, storing inputs and result in the state; *)
(* a behaviour is one call.  SpecResolver calls one resolver twice with    *)
(* different values; SpecForm mounts a form and then interleaves user      *)
(* input with the effects the component runs on it; SpecList adds, copies  *)
(* and removes rows of a FormList; SpecAsync interleaves schema changes,   *)
(* value changes and the responses of option requests.                     *)
(***************************************************************************)
EXTENDS Integers, Sequences, FiniteSets, TLC

VARIABLES
  op,              \* the function applied last ("idle" before any call)
  condition,       \* evaluateCondition: the condition argument
  values,          \* evaluateCondition / computeFieldState: the value snapshot
  condResult,      \* evaluateCondition: the outcome (a boolean value or Throw)
  expr,            \* evaluateCompute / extractDependencies: the expression (AST)
  computeValues,   \* evaluateCompute: the flat value snapshot
  dependencies,    \* evaluateCompute: the dependency list
  precision,       \* evaluateCompute: precision (NoPrecision when not given)
  roundMode,       \* evaluateCompute: "round" | "ceil" | "floor"
  computeResult,   \* evaluateCompute: the outcome
  otherValues,     \* a second snapshot that agrees with computeValues on dependencies
  otherResult,     \* evaluateCompute on otherValues
  extracted,       \* extractDependencies(expr): the returned array
  schema,          \* parseSchema: input.fields
  parsed,          \* parseSchema: the ParsedSchema returned
  dependencyGraph, \* getDownstreamFields: the dependencyGraph argument
  startField,      \* getDownstreamFields: fieldName
  queue,           \* getDownstreamFields: the work queue
  downstream,      \* getDownstreamFields: the result set under construction
  iterations,      \* getDownstreamFields: iterations of the while loop so far
  pc,              \* getDownstreamFields: "idle" | "loop" | "done"
  field,           \* computeFieldState: the field schema
  globalDisabled,  \* computeFieldState: globalDisabled
  globalReadOnly,  \* computeFieldState: globalReadOnly
  fieldState,      \* computeFieldState: the FieldState returned
  fieldStates,     \* computeAllFieldStates: the Map returned
  watchFields,     \* getWatchFields: the returned array, as the set of its members
  resolverParsed,  \* createDynamicResolver: the parsed schema the resolver closes over
  snapshot,        \* resolver: the values of the latest call
  previous,        \* resolver: the values of the call before it
  validator,       \* resolver: the valibot schema the latest call built
  errors,          \* resolver: the errors object the latest call returned
  formParsed,      \* form: the parsed schema of the mounted form
  formValues,      \* form: the values react-hook-form holds
  formDefaults,    \* form: the default values react-hook-form holds
  dirtyFields,     \* form: the paths marked dirty
  touchedFields,   \* form: the paths marked touched
  prevValues,      \* form: prevValuesRefForReset.current
  prevDeps,        \* form: prevDepsRef.current
  blurred,         \* form: the list cell whose onBlur handler is yet to run
  payload,         \* form: the object handed to onSubmit
  passes,          \* form: runs of the compute effect since the last user change
  clearedFields,   \* form: the fields auto-cleared since the last user change
  listSchema,      \* FormListWidget: schema
  listRows,        \* FormListWidget: the rows of the field array
  asyncFields,     \* useAsyncOptions: fields
  asyncValues,     \* useAsyncOptions: values
  optionsMap,      \* useAsyncOptions: optionsMap
  optionDeps,      \* useAsyncOptions: prevDepsRef.current
  initializedFields, \* useAsyncOptions: initializedFieldsRef.current
  requestIds,      \* useAsyncOptions: requestIdsRef.current
  inFlight,        \* useAsyncOptions: the requests whose promise is pending
  issued,          \* useAsyncOptions: the number of requests issued so far
  latest,          \* useAsyncOptions: per field, the request issued last
  answered         \* useAsyncOptions: the request whose response was handled last

condVars    == <<condition, values, condResult>>
computeVars == <<expr, computeValues, dependencies, precision, roundMode,
                 computeResult, otherValues, otherResult, extracted>>
parserVars  == <<schema, parsed, dependencyGraph, startField, queue, downstream,
                 iterations, pc>>
stateVars   == <<field, globalDisabled, globalReadOnly, fieldState, fieldStates>>
watchVars   == <<watchFields>>
validVars   == <<resolverParsed, snapshot, previous, validator, errors>>
formVars    == <<formParsed, formValues, formDefaults, dirtyFields, touchedFields,
                 prevValues, prevDeps, blurred, payload, passes,
                 clearedFields>>
listVars    == <<listSchema, listRows>>
asyncVars   == <<asyncFields, asyncValues, optionsMap, optionDeps, initializedFields,
                 requestIds, inFlight, issued, latest, answered>>
vars == <<op, condition, values, condResult, expr, computeValues, dependencies,
          precision, roundMode, computeResult, otherValues, otherResult,
          extracted, schema, parsed, dependencyGraph, startField, queue,
          downstream, iterations, pc, field, globalDisabled, globalReadOnly,
          fieldState, fieldStates, watchFields, resolverParsed, snapshot, previous,
          validator, errors, formParsed, formValues, formDefaults, dirtyFields,
          touchedFields, prevValues, prevDeps, blurred, payload, passes,
          clearedFields, listSchema, listRows, asyncFields, asyncValues,
          optionsMap, optionDeps, initializedFields, requestIds, inFlight,
          issued, latest, answered>>

-----------------------------------------------------------------------------
(* JavaScript values.  A value is a record tagged with its kind; the payload *)
(* field is named differently per kind, so values of different kinds are     *)
(* unequal records.  Throw is the outcome of a call that raised.             *)

Undef   == [t |-> "undefined"]
Null    == [t |-> "null"]
Bool(b) == [t |-> "boolean", b |-> b]
Num(n)  == [t |-> "number", n |-> n]
NaN     == [t |-> "number", k |-> "NaN"]
PosInf  == [t |-> "number", k |-> "Infinity"]
NegInf  == [t |-> "number", k |-> "-Infinity"]
Str(s)  == [t |-> "string", s |-> s]
Arr(a)  == [t |-> "array", a |-> a]
Obj(o)  == [t |-> "object", o |-> o]
Throw   == [t |-> "throw"]
True    == Bool(TRUE)
False   == Bool(FALSE)
EmptyObject == [key \in {} |-> Undef]

IsNumber(v) == v.t = "number"
IsFinite(v) == v.t = "number" /\ "n" \in DOMAIN v

\* a === b: no coercion; NaN equals nothing; objects and arrays compare by
\* reference, and a literal of a condition is never the snapshot's object.
StrictEquals(a, b) ==
  IF a.t # b.t THEN FALSE
  ELSE IF a.t \in {"undefined", "null"} THEN TRUE
  ELSE IF a.t = "number" THEN a # NaN /\ a = b
  ELSE IF a.t \in {"string", "boolean"} THEN a = b
  ELSE FALSE

\* SameValueZero, the comparison of Array.prototype.includes.
SameValueZero(a, b) == StrictEquals(a, b) \/ (a = NaN /\ b = NaN)

Includes(list, v) == \E i \in 1..Len(list) : SameValueZero(list[i], v)

\* String.prototype.trim on the strings of the model.
Trim(s) == IF s = " " THEN "" ELSE s

\* a < b on numbers (false as soon as one side is NaN).
NumLess(a, b) ==
  IF a = NaN \/ b = NaN THEN FALSE
  ELSE IF a = b THEN FALSE
  ELSE IF a = NegInf \/ b = PosInf THEN TRUE
  ELSE IF a = PosInf \/ b = NegInf THEN FALSE
  ELSE a.n < b.n

NumLessEq(a, b) ==
  IF a = NaN \/ b = NaN THEN FALSE ELSE a = b \/ NumLess(a, b)

\* !!v
Truthy(v) ==
  IF v.t \in {"undefined", "null"} THEN FALSE
  ELSE IF v.t = "boolean" THEN v.b
  ELSE IF v.t = "number" THEN v # NaN /\ v # Num(0)
  ELSE IF v.t = "string" THEN v.s # ""
  ELSE TRUE

-----------------------------------------------------------------------------
(* The condition evaluator. *)

\* fieldPath.split("."), on the field names of the model.
Split(fieldPath) ==
  CASE fieldPath = "a.b" -> <<"a", "b">>
    [] fieldPath = "a.b.c" -> <<"a", "b", "c">>
    [] OTHER -> <<fieldPath>>

\* (current as Record<string, unknown>)[part]: a TypeError on undefined and
\* null, undefined for a missing key and for a key of a primitive or array.
Member(current, part) ==
  IF current.t \in {"undefined", "null"} THEN Throw
  ELSE IF current.t = "object" /\ part \in DOMAIN current.o THEN current.o[part]
  ELSE Undef

isEmpty(value) ==
  \/ value = Undef
  \/ value = Null
  \/ (value.t = "string" /\ Trim(value.s) = "")
  \/ (value.t = "array" /\ Len(value.a) = 0)

RECURSIVE WalkUnguarded(_, _)
WalkUnguarded(current, parts) ==
  IF parts = <<>> \/ current = Throw THEN current
  ELSE WalkUnguarded(Member(current, Head(parts)), Tail(parts))

\* getFieldValue without its undefined/null test.
getFieldValueUnguarded(vals, fieldPath) == WalkUnguarded(Obj(vals), Split(fieldPath))

RECURSIVE Walk(_, _)
Walk(current, parts) ==
  IF parts = <<>> THEN current
  ELSE IF current = Undef \/ current = Null THEN Undef
  ELSE Walk(Member(current, Head(parts)), Tail(parts))

getFieldValue(vals, fieldPath) == Walk(Obj(vals), Split(fieldPath))

isSimpleCondition(cond) == "field" \in DOMAIN cond

isCompoundCondition(cond) ==
  "and" \in DOMAIN cond \/ "or" \in DOMAIN cond \/ "not" \in DOMAIN cond

evaluateSimpleCondition(cond, vals) ==
  LET fieldValue == getFieldValue(vals, cond.field)
      has(key) == key \in DOMAIN cond
  IN  IF fieldValue = Throw THEN Throw
      ELSE IF has("eq") THEN Bool(StrictEquals(fieldValue, cond.eq))
      ELSE IF has("ne") THEN Bool(~StrictEquals(fieldValue, cond.ne))
      ELSE IF has("gt") /\ IsNumber(fieldValue) THEN Bool(NumLess(cond.gt, fieldValue))
      ELSE IF has("gte") /\ IsNumber(fieldValue) THEN Bool(NumLessEq(cond.gte, fieldValue))
      ELSE IF has("lt") /\ IsNumber(fieldValue) THEN Bool(NumLess(fieldValue, cond.lt))
      ELSE IF has("lte") /\ IsNumber(fieldValue) THEN Bool(NumLessEq(fieldValue, cond.lte))
      ELSE IF has("in") /\ cond.in.t = "array" THEN Bool(Includes(cond.in.a, fieldValue))
      ELSE IF has("notIn") /\ cond.notIn.t = "array"
        THEN Bool(~Includes(cond.notIn.a, fieldValue))
      ELSE IF has("empty")
        THEN Bool(IF Truthy(cond.empty) THEN isEmpty(fieldValue) ELSE ~isEmpty(fieldValue))
      ELSE IF has("notEmpty")
        THEN Bool(IF Truthy(cond.notEmpty) THEN ~isEmpty(fieldValue) ELSE isEmpty(fieldValue))
      ELSE False

RECURSIVE evaluateCondition(_, _), evaluateCompoundCondition(_, _), Every(_, _), Some(_, _)

\* condition.and.every(c => evaluateCondition(c, values))
Every(list, vals) ==
  IF list = <<>> THEN True
  ELSE LET r == evaluateCondition(Head(list), vals)
       IN  IF r = Throw THEN Throw
           ELSE IF ~Truthy(r) THEN False
           ELSE Every(Tail(list), vals)

\* condition.or.some(c => evaluateCondition(c, values))
Some(list, vals) ==
  IF list = <<>> THEN False
  ELSE LET r == evaluateCondition(Head(list), vals)
       IN  IF r = Throw THEN Throw
           ELSE IF Truthy(r) THEN True
           ELSE Some(Tail(list), vals)

evaluateCompoundCondition(cond, vals) ==
  IF "and" \in DOMAIN cond THEN Every(cond.and, vals)
  ELSE IF "or" \in DOMAIN cond THEN Some(cond.or, vals)
  ELSE IF "not" \in DOMAIN cond
    THEN LET r == evaluateCondition(cond.not, vals)
         IN  IF r = Throw THEN Throw ELSE Bool(~Truthy(r))
  ELSE False

\* The final return of evaluateCondition, reached by a condition that is
\* neither simple nor compound.
UnrecognizedShape == True

evaluateCondition(cond, vals) ==
  IF cond = Undef \/ cond = Null THEN True
  ELSE IF isSimpleCondition(cond) THEN evaluateSimpleCondition(cond, vals)
  ELSE IF isCompoundCondition(cond) THEN evaluateCompoundCondition(cond, vals)
  ELSE UnrecognizedShape

-----------------------------------------------------------------------------
(* The inputs of the condition evaluator. *)

MaxListLen == 2     \* length of the and/or lists enumerated

FieldNames == {"a", "a.b", "n"}

Literals == {Num(0), Num(1), Str("x"), Bool(FALSE), Null}

NumberLiterals == {Num(0), Num(1)}

ArrayLiterals == {Arr(<<>>), Arr(<<Num(0)>>), Arr(<<Num(1), Str("x")>>), Arr(<<NaN>>)}

SimpleConditions ==
  UNION { {[field |-> f, eq |-> x] : x \in Literals}
          \cup {[field |-> f, ne |-> x] : x \in Literals}
          \cup {[field |-> f, gt |-> x] : x \in NumberLiterals}
          \cup {[field |-> f, gte |-> x] : x \in NumberLiterals}
          \cup {[field |-> f, lt |-> x] : x \in NumberLiterals}
          \cup {[field |-> f, lte |-> x] : x \in NumberLiterals}
          \cup {[field |-> f, in |-> x] : x \in ArrayLiterals}
          \cup {[field |-> f, notIn |-> x] : x \in ArrayLiterals}
          \cup {[field |-> f, empty |-> Bool(b)] : b \in BOOLEAN}
          \cup {[field |-> f, notEmpty |-> Bool(b)] : b \in BOOLEAN}
        : f \in FieldNames }

\* The sub-conditions the compound conditions are built from.
ChildConditions ==
  { [field |-> "a", eq |-> Num(1)],
    [field |-> "a.b", eq |-> Num(1)],
    [field |-> "a.b", empty |-> Bool(TRUE)],
    [field |-> "n", gt |-> Num(0)],
    [field |-> "a", notEmpty |-> Bool(TRUE)] }

ConditionLists == UNION { [1..k -> ChildConditions] : k \in 0..MaxListLen }

FlatCompounds ==
  {[and |-> l] : l \in ConditionLists} \cup {[or |-> l] : l \in ConditionLists}

WellFormedConditions ==
  SimpleConditions \cup FlatCompounds
    \cup {[not |-> c] : c \in ChildConditions \cup FlatCompounds}
    \cup {[and |-> <<[not |-> c], d>>] : c \in ChildConditions, d \in ChildConditions}

\* Shapes the evaluator does not recognize: no field/and/or/not key, or a
\* simple condition without an operator key.
MalformedConditions ==
  {EmptyObject, [foo |-> Num(1)]} \cup {[field |-> f] : f \in FieldNames}

Conditions == WellFormedConditions \cup MalformedConditions

AValues ==
  { Undef, Null, Num(0), Num(1), NaN, Str(""), Str(" "), Str("x"), Bool(FALSE),
    Arr(<<>>), Obj(EmptyObject), Obj([b |-> Num(1)]), Obj([b |-> Null]) }

NValues == {Undef, Num(0), Num(1)}

\* Value snapshots: a and n present or missing; a may be an object (so that
\* the path a.b resolves), a primitive, null or undefined.
Snapshots ==
  {EmptyObject, [n |-> Num(1)]}
    \cup {[a |-> x, n |-> y] : x \in AValues, y \in NValues}

-----------------------------------------------------------------------------
(* Numbers.  A finite number is an exact decimal with Digits decimal places, *)
(* held as an integer count of units of 10^-Digits; its magnitude is at most *)
(* MaxInteger, beyond which arithmetic gives Infinity (MaxInteger stands in  *)
(* for Number.MAX_VALUE).                                                    *)

Digits == 4

MaxInteger == 20000

RECURSIVE TenTo(_)
TenTo(k) == IF k = 0 THEN 1 ELSE 10 * TenTo(k - 1)

Scale == TenTo(Digits)

MaxFinite == MaxInteger * Scale

\* The number i + f / 10000.
Dec(i, f) == Num(i * Scale + f * (Scale \div 10000))

Abs(n) == IF n < 0 THEN -n ELSE n

Sign(v) ==
  IF v = PosInf THEN 1 ELSE IF v = NegInf THEN -1
  ELSE IF v.n > 0 THEN 1 ELSE IF v.n < 0 THEN -1 ELSE 0

\* The number with n units, or the infinity it overflows to.
Finite(n) ==
  IF n > MaxFinite THEN PosInf ELSE IF n < -MaxFinite THEN NegInf ELSE Num(n)

Negate(v) ==
  IF v = NaN THEN NaN
  ELSE IF v = PosInf THEN NegInf
  ELSE IF v = NegInf THEN PosInf
  ELSE Num(-v.n)

Add(a, b) ==
  IF a = NaN \/ b = NaN THEN NaN
  ELSE IF ~IsFinite(a) THEN (IF ~IsFinite(b) /\ a # b THEN NaN ELSE a)
  ELSE IF ~IsFinite(b) THEN b
  ELSE Finite(a.n + b.n)

Subtract(a, b) == Add(a, Negate(b))

\* n units times the integer k, without leaving the finite range on the way.
TimesInteger(n, k) ==
  IF n = 0 \/ k = 0 THEN Num(0)
  ELSE IF Abs(n) > MaxFinite \div Abs(k)
    THEN (IF (n < 0) = (k < 0) THEN PosInf ELSE NegInf)
  ELSE Num(n * k)

Multiply(a, b) ==
  IF a = NaN \/ b = NaN THEN NaN
  ELSE IF ~IsFinite(a) \/ ~IsFinite(b)
    THEN (IF Sign(a) = 0 \/ Sign(b) = 0 THEN NaN
          ELSE IF Sign(a) = Sign(b) THEN PosInf ELSE NegInf)
  ELSE IF b.n % Scale = 0 THEN TimesInteger(a.n, b.n \div Scale)
  ELSE IF a.n % Scale = 0 THEN TimesInteger(b.n, a.n \div Scale)
  ELSE Finite(Sign(a) * Sign(b) * ((Abs(a.n) * Abs(b.n)) \div Scale))

Divide(a, b) ==
  IF a = NaN \/ b = NaN THEN NaN
  ELSE IF ~IsFinite(a)
    THEN (IF ~IsFinite(b) THEN NaN
          ELSE IF (Sign(a) < 0) = (Sign(b) < 0) THEN PosInf ELSE NegInf)
  ELSE IF ~IsFinite(b) THEN Num(0)
  ELSE IF b.n = 0
    THEN (IF a.n = 0 THEN NaN ELSE IF a.n > 0 THEN PosInf ELSE NegInf)
  ELSE IF b.n % Scale = 0
    THEN Num(Sign(a) * Sign(b) * (Abs(a.n) \div Abs(b.n \div Scale)))
  ELSE Finite(Sign(a) * Sign(b) * ((Abs(a.n) * Scale) \div Abs(b.n)))

\* Math.ceil and Math.floor.
MathCeil(v) == IF IsFinite(v) THEN Num(-(((-v.n) \div Scale) * Scale)) ELSE v

MathFloor(v) == IF IsFinite(v) THEN Num((v.n \div Scale) * Scale) ELSE v

\* Math.pow(10, p) for an integer p >= 0.
MathPow10(p) == IF TenTo(p) > MaxInteger THEN PosInf ELSE Num(TenTo(p) * Scale)

\* Number.prototype.toFixed(p) of a finite number: the decimal numeral with p
\* fraction digits nearest to it, the larger magnitude on a tie; a RangeError
\* for more than ToFixedMaxDigits digits.  The numeral is a record of its
\* sign, integer part and fraction digits.
ToFixedMaxDigits == 100

toFixed(v, p) ==
  IF p > ToFixedMaxDigits THEN Throw
  ELSE IF p >= Digits
    THEN [neg |-> v.n < 0, int |-> Abs(v.n) \div Scale,
          frac |-> (Abs(v.n) % Scale) * TenTo(p - Digits), places |-> p]
  ELSE LET unit == TenTo(Digits - p)
           q == (2 * Abs(v.n) + unit) \div (2 * unit)
       IN  [neg |-> v.n < 0, int |-> q \div TenTo(p), frac |-> q % TenTo(p),
            places |-> p]

\* Number(numeral), for a numeral toFixed produced.
NumeralToNumber(d) ==
  LET units == IF d.places >= Digits
                 THEN d.int * Scale + d.frac \div TenTo(d.places - Digits)
                 ELSE d.int * Scale + d.frac * TenTo(Digits - d.places)
  IN  Num(IF d.neg THEN -units ELSE units)

\* Number(s) on the strings of the model.
StringToNumber(s) ==
  CASE s = "" -> Num(0)
    [] s = " " -> Num(0)
    [] s = "2" -> Dec(2, 0)
    [] OTHER -> NaN

\* ToNumber, the coercion of the arithmetic operators.
ToNumber(v) ==
  IF v.t = "number" THEN v
  ELSE IF v.t = "null" THEN Num(0)
  ELSE IF v.t = "boolean" THEN (IF v.b THEN Dec(1, 0) ELSE Num(0))
  ELSE IF v.t = "string" THEN StringToNumber(v.s)
  ELSE NaN

\* The decimal digits of a fraction of the given number of places, without
\* trailing zeros.
RECURSIVE FractionDigits(_, _, _)
FractionDigits(fraction, places, stripping) ==
  IF places = 0 THEN ""
  ELSE IF stripping /\ fraction % 10 = 0
    THEN FractionDigits(fraction \div 10, places - 1, TRUE)
  ELSE FractionDigits(fraction \div 10, places - 1, FALSE) \o ToString(fraction % 10)

\* Number.prototype.toString on a finite number: distinct numbers give
\* distinct strings.
NumberToString(v) ==
  LET magnitude == Abs(v.n)
      fraction == magnitude % Scale
  IN  (IF v.n < 0 THEN "-" ELSE "") \o ToString(magnitude \div Scale)
        \o (IF fraction = 0 THEN "" ELSE "." \o FractionDigits(fraction, Digits, TRUE))

\* ToString on the values the model concatenates.
JsToString(v) ==
  IF v.t = "string" THEN v.s
  ELSE IF IsFinite(v) THEN NumberToString(v)
  ELSE IF v = PosInf THEN "Infinity"
  ELSE IF v = NegInf THEN "-Infinity"
  ELSE IF v = NaN THEN "NaN"
  ELSE IF v.t = "undefined" THEN "undefined"
  ELSE IF v.t = "null" THEN "null"
  ELSE IF v.t = "boolean" THEN (IF v.b THEN "true" ELSE "false")
  ELSE "#"

-----------------------------------------------------------------------------
(* Compute expressions.  An expression string is modelled by its syntax     *)
(* tree; Invalid is a string that does not parse.                            *)

Lit(v)            == [k |-> "lit", v |-> v]
Var(name)         == [k |-> "var", name |-> name]
Bin(o, l, r)      == [k |-> "bin", o |-> o, l |-> l, r |-> r]
MathCall(fn, args) == [k |-> "call", fn |-> fn, args |-> args]
Ternary(c, a, b)  == [k |-> "cond", c |-> c, a |-> a, b |-> b]
Invalid           == [k |-> "invalid"]

BinaryOp(o, l, r) ==
  IF o = "+"
    THEN (IF l.t = "string" \/ r.t = "string"
            THEN Str(JsToString(l) \o JsToString(r))
            ELSE Add(ToNumber(l), ToNumber(r)))
  ELSE IF o = "-" THEN Subtract(ToNumber(l), ToNumber(r))
  ELSE IF o = "*" THEN Multiply(ToNumber(l), ToNumber(r))
  ELSE IF o = "/" THEN Divide(ToNumber(l), ToNumber(r))
  ELSE Bool(NumLess(ToNumber(r), ToNumber(l)))     \* ">"

RECURSIVE MathMax(_)
MathMax(args) ==
  IF args = <<>> THEN NegInf
  ELSE LET h == ToNumber(Head(args))
           rest == MathMax(Tail(args))
       IN  IF h = NaN \/ rest = NaN THEN NaN
           ELSE IF NumLess(h, rest) THEN rest ELSE h

\* The value of the function body `return (expr)` with the parameters bound
\* as env says.  An identifier that is no parameter is looked up globally
\* and raises a ReferenceError.
RECURSIVE Evaluate(_, _), EvaluateAll(_, _)
Evaluate(e, env) ==
  IF e.k = "lit" THEN e.v
  ELSE IF e.k = "var"
    THEN (IF e.name \in DOMAIN env THEN env[e.name] ELSE Throw)
  ELSE IF e.k = "bin"
    THEN LET l == Evaluate(e.l, env)
             r == Evaluate(e.r, env)
         IN  IF l = Throw \/ r = Throw THEN Throw ELSE BinaryOp(e.o, l, r)
  ELSE IF e.k = "call"
    THEN LET args == EvaluateAll(e.args, env)
         IN  IF \E i \in 1..Len(args) : args[i] = Throw THEN Throw
             ELSE MathMax(args)
  ELSE IF e.k = "cond"
    THEN LET c == Evaluate(e.c, env)
         IN  IF c = Throw THEN Throw
             ELSE IF Truthy(c) THEN Evaluate(e.a, env) ELSE Evaluate(e.b, env)
  ELSE Throw

EvaluateAll(args, env) == [i \in 1..Len(args) |-> Evaluate(args[i], env)]

\* values[dep]
Lookup(vals, key) == IF key \in DOMAIN vals THEN vals[key] ELSE Undef

Range(seq) == {seq[i] : i \in 1..Len(seq)}

\* isValidComputeValue with only the undefined test.
isValidComputeValueUndefinedOnly(value) == value # Undef

isValidComputeValue(value) ==
  IF value = Undef \/ value = Null THEN FALSE
  ELSE IF value.t = "number" THEN value # NaN
  ELSE IF value.t = "string" THEN Trim(value.s) # ""
  ELSE TRUE

\* One entry of safeValues.
SafeValue(value) ==
  IF value.t = "string" /\ StringToNumber(value.s) # NaN
    THEN StringToNumber(value.s)
  ELSE IF value = Undef \/ value = Null THEN Num(0)
  ELSE value

\* safeValues built from every key of the snapshot.
safeValuesOfSnapshot(vals, deps) ==
  [key \in DOMAIN vals \cup Range(deps) |-> SafeValue(Lookup(vals, key))]

\* safeValues: the dependencies only.
safeValues(vals, deps) == [dep \in Range(deps) |-> SafeValue(Lookup(vals, dep))]

NoPrecision == -1     \* precision undefined (or negative): no rounding

\* The rounding step applied to a finite number.
ApplyPrecision(result, prec, mode) ==
  LET factor == MathPow10(prec)
  IN  IF mode = "ceil" THEN Divide(MathCeil(Multiply(result, factor)), factor)
      ELSE IF mode = "floor" THEN Divide(MathFloor(Multiply(result, factor)), factor)
      ELSE LET numeral == toFixed(result, prec)
           IN  IF numeral = Throw THEN Throw ELSE NumeralToNumber(numeral)

evaluateCompute(e, vals, deps, prec, mode) ==
  IF \E i \in 1..Len(deps) : ~isValidComputeValue(Lookup(vals, deps[i]))
    THEN Undef
  ELSE IF e = Invalid THEN Undef          \* new Function raises a SyntaxError
  ELSE LET result == Evaluate(e, safeValues(vals, deps))
       IN  IF result = Throw THEN Undef
           ELSE IF result.t = "number"
             THEN IF ~IsFinite(result) THEN Undef
                  ELSE IF prec >= 0
                    THEN LET rounded == ApplyPrecision(result, prec, mode)
                         IN  IF rounded = Throw THEN Undef ELSE rounded
                  ELSE result
           ELSE result

-----------------------------------------------------------------------------
(* The inputs of the compute evaluator. *)

ComputeExpressions ==
  { Var("price"),
    Bin("*", Var("price"), Var("quantity")),
    Bin("/", Var("price"), Var("quantity")),
    Bin("+", Bin("*", Var("price"), Var("quantity")), Var("tax")),
    Bin("-", Var("price"), Var("tax")),
    MathCall("max", <<Var("price"), Var("quantity")>>),
    Ternary(Bin(">", Var("price"), Var("quantity")), Var("price"), Var("tax")),
    Invalid }

DependencyLists ==
  { <<>>, <<"price">>, <<"price", "quantity">>, <<"quantity", "tax">>,
    <<"price", "quantity", "tax">> }

PriceValues ==
  { Undef, NaN, Str("2"), Str("x"), Num(0), Dec(10, 0), Dec(12, 3456),
    Negate(Dec(2, 5000)), Dec(5000, 0) }

QuantityValues == {Undef, Null, Str(" "), Num(0), Dec(3, 0)}

TaxValues == {Undef, Str(""), Dec(1, 0)}

\* The snapshot {price, quantity, tax}; a key whose value is undefined is
\* left out, which values[dep] cannot tell from a key holding undefined.
Snapshot(p, q, t) ==
  LET all == [price |-> p, quantity |-> q, tax |-> t]
  IN  [key \in {x \in DOMAIN all : all[x] # Undef} |-> all[key]]

ComputeSnapshots ==
  {Snapshot(p, q, t) : p \in PriceValues, q \in QuantityValues, t \in TaxValues}

Precisions == {NoPrecision, 0, 1, 2}

RoundModes == {"round", "ceil", "floor"}

-----------------------------------------------------------------------------
(* Dependency extraction from a compute expression.  The expression string  *)
(* is the token sequence its syntax tree unparses to; the identifier regex  *)
(* /\b[a-zA-Z_][a-zA-Z0-9_]*\b/g matches exactly the word tokens.           *)

Word(text)  == [kind |-> "word", text |-> text]
Other(text) == [kind |-> "other", text |-> text]

RECURSIVE Tokens(_), TokensOfArgs(_)
Tokens(e) ==
  IF e.k = "lit"
    THEN (IF e.v = True THEN <<Word("true")>>
          ELSE IF e.v = False THEN <<Word("false")>>
          ELSE IF e.v = Null THEN <<Word("null")>>
          ELSE IF e.v = NaN THEN <<Word("NaN")>>
          ELSE <<Other(JsToString(e.v))>>)
  ELSE IF e.k = "var" THEN <<Word(e.name)>>
  ELSE IF e.k = "bin" THEN Tokens(e.l) \o <<Other(e.o)>> \o Tokens(e.r)
  ELSE IF e.k = "call"
    THEN <<Word("Math"), Other("."), Word(e.fn), Other("(")>>
           \o TokensOfArgs(e.args) \o <<Other(")")>>
  ELSE IF e.k = "cond"
    THEN Tokens(e.c) \o <<Other("?")>> \o Tokens(e.a) \o <<Other(":")>> \o Tokens(e.b)
  ELSE <<Word("price"), Other("*")>>

TokensOfArgs(args) ==
  IF args = <<>> THEN <<>>
  ELSE IF Len(args) = 1 THEN Tokens(Head(args))
  ELSE Tokens(Head(args)) \o <<Other(",")>> \o TokensOfArgs(Tail(args))

\* expr.match(identifier regex) || []
MatchIdentifiers(tokens) ==
  LET words == SelectSeq(tokens, LAMBDA tok : tok.kind = "word")
  IN  [i \in 1..Len(words) |-> words[i].text]

IsMember(x, seq) == \E i \in 1..Len(seq) : seq[i] = x

\* Array.from(new Set(list)): the first occurrence of each element, in order.
RECURSIVE Unique(_)
Unique(list) ==
  IF list = <<>> THEN <<>>
  ELSE LET front == Unique(SubSeq(list, 1, Len(list) - 1))
           last == list[Len(list)]
       IN  IF IsMember(last, front) THEN front ELSE Append(front, last)

\* The keyword set of extractDependencies (compute).
ComputeKeywords ==
  { "true", "false", "null", "undefined", "NaN", "Infinity", "Math", "Number",
    "String", "Boolean", "Array", "Object", "if", "else", "return", "function" }

extractComputeDependencies(e) ==
  Unique(SelectSeq(MatchIdentifiers(Tokens(e)), LAMBDA id : id \notin ComputeKeywords))

-----------------------------------------------------------------------------
(* The schema parser.  A field schema is a record that holds name and any   *)
(* of the optional keys dependencies, visibleWhen, disabledWhen,            *)
(* requiredWhen, compute, columns, defaultValue, hidden, disabled,          *)
(* readonly, rules.                                                          *)

Has(object, key) == key \in DOMAIN object

\* extractDependencies(condition): the fields of a condition, deduplicated.
RECURSIVE extractDependencies(_), ExtractFromList(_)
extractDependencies(cond) ==
  Unique(
    IF isSimpleCondition(cond) THEN <<cond.field>>
    ELSE IF Has(cond, "and") THEN ExtractFromList(cond.and)
    ELSE IF Has(cond, "or") THEN ExtractFromList(cond.or)
    ELSE IF Has(cond, "not") THEN extractDependencies(cond.not)
    ELSE <<>>)

ExtractFromList(list) ==
  IF list = <<>> THEN <<>>
  ELSE extractDependencies(Head(list)) \o ExtractFromList(Tail(list))

\* The keyword set of extractExpressionVars.
ParserKeywords ==
  { "true", "false", "null", "undefined", "Math", "Number", "String", "Boolean",
    "Array", "Object", "if", "else", "return", "const", "let", "var" }

extractExpressionVars(e) ==
  SelectSeq(MatchIdentifiers(Tokens(e)), LAMBDA id : id \notin ParserKeywords)

\* collectFields: allFields in the order the fields are pushed (pre-order).
RECURSIVE collectFields(_)
collectFields(fields) ==
  IF fields = <<>> THEN <<>>
  ELSE LET f == Head(fields)
       IN  <<f>> \o (IF Has(f, "columns") THEN collectFields(f.columns) ELSE <<>>)
             \o collectFields(Tail(fields))

\* fieldMap: every set(name, field) in order, the last one staying.
RECURSIVE FieldMapOf(_)
FieldMapOf(allFields) ==
  IF allFields = <<>> THEN EmptyObject
  ELSE LET f == allFields[Len(allFields)]
           before == FieldMapOf(SubSeq(allFields, 1, Len(allFields) - 1))
       IN  [n \in DOMAIN before \cup {f.name} |-> IF n = f.name THEN f ELSE before[n]]

RECURSIVE DefaultValuesOf(_)
DefaultValuesOf(allFields) ==
  IF allFields = <<>> THEN EmptyObject
  ELSE LET f == allFields[Len(allFields)]
           before == DefaultValuesOf(SubSeq(allFields, 1, Len(allFields) - 1))
       IN  IF Has(f, "defaultValue") /\ f.defaultValue # Undef
             THEN [n \in DOMAIN before \cup {f.name} |->
                     IF n = f.name THEN f.defaultValue ELSE before[n]]
             ELSE before

\* The deps set of one field with the requiredWhen block left out.
fieldDepsWithoutRequiredWhen(f) ==
  (IF Has(f, "dependencies") THEN Range(f.dependencies) ELSE {})
    \cup (IF Has(f, "visibleWhen") THEN Range(extractDependencies(f.visibleWhen)) ELSE {})
    \cup (IF Has(f, "disabledWhen") THEN Range(extractDependencies(f.disabledWhen)) ELSE {})
    \cup (IF Has(f, "compute")
            THEN (IF Has(f.compute, "dependencies")
                    THEN Range(f.compute.dependencies)
                    ELSE Range(extractExpressionVars(f.compute.expr)))
            ELSE {})

\* The deps set the dependency-graph loop collects for one field.
fieldDeps(f) ==
  (IF Has(f, "dependencies") THEN Range(f.dependencies) ELSE {})
    \cup (IF Has(f, "visibleWhen") THEN Range(extractDependencies(f.visibleWhen)) ELSE {})
    \cup (IF Has(f, "disabledWhen") THEN Range(extractDependencies(f.disabledWhen)) ELSE {})
    \cup (IF Has(f, "requiredWhen") THEN Range(extractDependencies(f.requiredWhen)) ELSE {})
    \cup (IF Has(f, "compute")
            THEN (IF Has(f.compute, "dependencies")
                    THEN Range(f.compute.dependencies)
                    ELSE Range(extractExpressionVars(f.compute.expr)))
            ELSE {})

\* The graph after recording name under each of deps.
AddEdges(graph, deps, name) ==
  [d \in DOMAIN graph \cup deps |->
     (IF d \in DOMAIN graph THEN graph[d] ELSE {})
       \cup (IF d \in deps THEN {name} ELSE {})]

\* The dependency-graph loop over allFields.
RECURSIVE BuildGraph(_)
BuildGraph(allFields) ==
  IF allFields = <<>> THEN EmptyObject
  ELSE LET f == allFields[Len(allFields)]
       IN  AddEdges(BuildGraph(SubSeq(allFields, 1, Len(allFields) - 1)),
                    fieldDeps(f), f.name)

parseSchema(fields) ==
  LET allFields == collectFields(fields)
  IN  [ input |-> [fields |-> fields],
        fieldMap |-> FieldMapOf(allFields),
        dependencyGraph |-> BuildGraph(allFields),
        defaultValues |-> DefaultValuesOf(allFields),
        allFields |-> allFields ]

\* The dependents the for loop of getDownstreamFields adds and queues, with
\* the downstream.has test left out.
UnvisitedUnchecked(dependents, seen) == dependents

\* The dependents the for loop adds and queues: those not yet in downstream.
Unvisited(dependents, seen) == dependents \ seen

\* The orders in which a Set may hold (and the loop visit) its elements.
Orders(set) ==
  {order \in [1..Cardinality(set) -> set] : Range(order) = set}

-----------------------------------------------------------------------------
(* The field state engine. *)

\* The disabled flag with globalDisabled used the way globalReadOnly is: as
\* the default of a field that declares none.
disabledStateGlobalAsDefault(f, vals, gDisabled) ==
  LET disabled0 == IF Has(f, "disabled") THEN f.disabled ELSE gDisabled
  IN  IF ~disabled0 /\ Has(f, "disabledWhen")
        THEN Truthy(evaluateCondition(f.disabledWhen, vals))
        ELSE disabled0

\* The disabled flag of computeFieldState.
disabledState(f, vals, gDisabled) ==
  LET disabled0 == IF Has(f, "disabled") THEN f.disabled ELSE FALSE
      disabled1 == IF ~disabled0 /\ Has(f, "disabledWhen")
                     THEN Truthy(evaluateCondition(f.disabledWhen, vals))
                     ELSE disabled0
  IN  IF gDisabled THEN TRUE ELSE disabled1

computeFieldState(f, vals, gDisabled, gReadOnly) ==
  LET visible0 == ~(Has(f, "hidden") /\ f.hidden)
      visible == IF visible0 /\ Has(f, "visibleWhen")
                   THEN Truthy(evaluateCondition(f.visibleWhen, vals))
                   ELSE visible0
      disabled == disabledState(f, vals, gDisabled)
      required0 == IF Has(f, "rules")
                     THEN \E i \in 1..Len(f.rules) : f.rules[i].type = "required"
                     ELSE FALSE
      required == IF ~required0 /\ Has(f, "requiredWhen")
                    THEN Truthy(evaluateCondition(f.requiredWhen, vals))
                    ELSE required0
      readonly == IF Has(f, "readonly") THEN f.readonly ELSE gReadOnly
  IN  [visible |-> visible, disabled |-> disabled, required |-> required,
       readonly |-> readonly]

\* states.set(field.name, state) for each of the given fields in order, a
\* later set of the same name replacing the earlier one.
RECURSIVE StatesOf(_, _, _, _)
StatesOf(fields, vals, gDisabled, gReadOnly) ==
  IF fields = <<>> THEN EmptyObject
  ELSE LET f == fields[Len(fields)]
           before == StatesOf(SubSeq(fields, 1, Len(fields) - 1), vals, gDisabled, gReadOnly)
       IN  [n \in DOMAIN before \cup {f.name} |->
              IF n = f.name THEN computeFieldState(f, vals, gDisabled, gReadOnly)
              ELSE before[n]]

\* for (const field of parsed.input.fields) states.set(...)
computeAllFieldStates(p, vals, gDisabled, gReadOnly) ==
  StatesOf(p.input.fields, vals, gDisabled, gReadOnly)

\* extractConditionDependencies(cond, deps): the names it adds to deps.
RECURSIVE extractConditionDependencies(_)
extractConditionDependencies(cond) ==
  IF Has(cond, "field") THEN {cond.field}
  ELSE (IF Has(cond, "and")
          THEN UNION {extractConditionDependencies(cond.and[i]) : i \in 1..Len(cond.and)}
          ELSE {})
    \cup (IF Has(cond, "or")
            THEN UNION {extractConditionDependencies(cond.or[i]) : i \in 1..Len(cond.or)}
            ELSE {})
    \cup (IF Has(cond, "not") THEN extractConditionDependencies(cond.not) ELSE {})

\* The names one field of allFields contributes to the watch set.
watchFieldsOf(f) ==
  (IF Has(f, "dependencies") THEN Range(f.dependencies) ELSE {})
    \cup (IF Has(f, "visibleWhen") THEN extractConditionDependencies(f.visibleWhen) ELSE {})
    \cup (IF Has(f, "disabledWhen") THEN extractConditionDependencies(f.disabledWhen) ELSE {})
    \cup (IF Has(f, "requiredWhen") THEN extractConditionDependencies(f.requiredWhen) ELSE {})
    \cup (IF Has(f, "compute") /\ Has(f.compute, "dependencies")
            THEN Range(f.compute.dependencies) ELSE {})

getWatchFields(p) ==
  UNION {watchFieldsOf(p.allFields[i]) : i \in 1..Len(p.allFields)}

-----------------------------------------------------------------------------
(* The validation adapter (core/validation/valibotAdapter.ts).  A valibot    *)
(* schema is a record: base says which inputs have the right type, pipes is  *)
(* the list of v.check actions piped after it.  A check is a requirement (a  *)
(* record naming the predicate of the source and its parameters) and a       *)
(* message.  A message is the sequence of its parts: <<label, suffix>> for a *)
(* default message built from the label (its fixed text given in English),  *)
(* <<text>> for a declared one.                                              *)
(* An object schema reads input[key] for every key of its shape, so a key    *)
(* missing from a snapshot validates as undefined.                           *)

labelOf(f) ==
  IF Has(f, "ui") /\ Has(f.ui, "label") THEN f.ui.label ELSE f.name

rulesOf(f) == IF Has(f, "rules") THEN f.rules ELSE <<>>

\* isFieldRequired looking at the static rules only.
isFieldRequiredRulesOnly(f, vals) ==
  \E i \in 1..Len(rulesOf(f)) : rulesOf(f)[i].type = "required"

isFieldRequired(f, vals) ==
  IF \E i \in 1..Len(rulesOf(f)) : rulesOf(f)[i].type = "required" THEN TRUE
  ELSE IF Has(f, "requiredWhen") THEN Truthy(evaluateCondition(f.requiredWhen, vals))
  ELSE FALSE

getRequiredMessage(f) ==
  LET required == SelectSeq(rulesOf(f), LAMBDA r : r.type = "required")
  IN  IF required # <<>> /\ Has(Head(required), "message")
        THEN <<Head(required).message>>
        ELSE <<labelOf(f), "must not be empty">>

\* rule.message ?? `${label}...`
messageOr(rule, default) == IF Has(rule, "message") THEN <<rule.message>> ELSE default

Check(requirement, message) == [requirement |-> requirement, message |-> message]

Piped(base, pipes) == [base |-> base, pipes |-> pipes]

Union(options) == [kind |-> "union", options |-> options]

\* v.optional(v.unknown()) and v.unknown() accept every input.
OptionalUnknown == Piped([kind |-> "optional"], <<>>)

Unknown == [kind |-> "unknown"]

\* rule.validate(value, values) for the validators of the model.
Validate(validate, val, vals) ==
  CASE validate = "acceptAll" -> True
    [] validate = "rejectAll" -> False
    [] validate = "needsValue" ->
         IF val \in {Undef, Null, Str("")} THEN Str("needs a value") ELSE True
    [] OTHER -> Undef

\* The strings of the model matched by the e-mail expression, by the pattern
\* rules of the model, and those new URL() accepts.
EmailStrings == {"a@b.c"}

UrlStrings == {"http://x"}

PatternStrings(pattern) ==
  CASE pattern = "^ab" -> {"ab", "abcd"}
    [] pattern = "@" -> {"a@b.c"}
    [] OTHER -> {}

\* String(val) of a value a check receives.
StringOf(val) == JsToString(val)

Absent(val) == val = Undef \/ val = Null \/ val = Str("")

\* Number(val) >= bound and Number(val) <= bound on the numbers of the model.
AtLeast(val, bound) == NumLessEq(Dec(bound, 0), ToNumber(val))

AtMost(val, bound) == NumLessEq(ToNumber(val), Dec(bound, 0))

\* The requirement of a v.check: the predicate applied to the piped value.
Requirement(req, val, vals) ==
  CASE req.p = "arrayNonEmpty" -> val.t = "array" /\ Len(val.a) > 0
    [] req.p = "present" -> ~Absent(val)
    [] req.p = "minLength" -> Absent(val) \/ Len(StringOf(val)) >= req.value
    [] req.p = "maxLength" -> Absent(val) \/ Len(StringOf(val)) <= req.value
    [] req.p = "pattern" -> Absent(val) \/ StringOf(val) \in PatternStrings(req.regex)
    [] req.p = "email" -> Absent(val) \/ StringOf(val) \in EmailStrings
    [] req.p = "url" -> Absent(val) \/ StringOf(val) \in UrlStrings
    [] req.p = "custom" -> Validate(req.validate, val, vals) = True
    [] req.p = "numberPresent" -> val # Undef /\ val # Null /\ val # NaN
    [] req.p = "min" -> val = Undef \/ val = Null \/ AtLeast(val, req.value)
    [] req.p = "max" -> val = Undef \/ val = Null \/ AtMost(val, req.value)
    [] req.p = "isTrue" -> val = True
    [] req.p = "minItems" -> val.t = "array" /\ Len(val.a) >= req.value
    [] req.p = "maxItems" -> val.t = "array" /\ Len(val.a) <= req.value
    [] OTHER -> TRUE

\* The message of an issue a failed check raises.
MessageOf(check, val, vals) ==
  IF check.requirement.p = "custom"
    THEN LET result == Validate(check.requirement.validate, val, vals)
         IN  IF result.t = "string" THEN <<result.s>> ELSE <<"validation failed">>
    ELSE check.message

CustomCheck(rule) == Check([p |-> "custom", validate |-> rule.validate], <<>>)

\* The check pushed for one rule of a text field (none for other rule types).
\* The value of a pattern rule, a string or RegExp where the other rules hold
\* a number, is the field regex of the rule.
textRuleChecks(rule, label) ==
  CASE rule.type = "minLength" ->
         <<Check([p |-> "minLength", value |-> rule.value],
                 messageOr(rule, <<label, "at least", ToString(rule.value), "characters">>))>>
    [] rule.type = "maxLength" ->
         <<Check([p |-> "maxLength", value |-> rule.value],
                 messageOr(rule, <<label, "at most", ToString(rule.value), "characters">>))>>
    [] rule.type = "pattern" ->
         <<Check([p |-> "pattern", regex |-> rule.regex],
                 messageOr(rule, <<label, "has a wrong format">>))>>
    [] rule.type = "email" ->
         <<Check([p |-> "email"], messageOr(rule, <<label, "must be a valid e-mail">>))>>
    [] rule.type = "url" ->
         <<Check([p |-> "url"], messageOr(rule, <<label, "must be a valid URL">>))>>
    [] rule.type = "custom" -> <<CustomCheck(rule)>>
    [] OTHER -> <<>>

\* The check pushed for one rule of a number field.
numberRuleChecks(rule, label) ==
  CASE rule.type = "min" ->
         <<Check([p |-> "min", value |-> rule.value],
                 messageOr(rule, <<label, "must not be below", ToString(rule.value)>>))>>
    [] rule.type = "max" ->
         <<Check([p |-> "max", value |-> rule.value],
                 messageOr(rule, <<label, "must not be above", ToString(rule.value)>>))>>
    [] rule.type = "custom" -> <<CustomCheck(rule)>>
    [] OTHER -> <<>>

RECURSIVE FlatMap(_, _)
FlatMap(Op(_), list) ==
  IF list = <<>> THEN <<>> ELSE Op(Head(list)) \o FlatMap(Op, Tail(list))

\* The required check of every category using the predicate of the text
\* category.
requiredCheckAsForText(isRequired, p, message) ==
  IF isRequired THEN <<Check([p |-> "present"], message)>> ELSE <<>>

\* The required check a category pushes (or pipes) when the field is required.
requiredCheck(isRequired, p, message) ==
  IF isRequired THEN <<Check([p |-> p], message)>> ELSE <<>>

\* field.component; "" stands for a field that declares none.
componentOf(f) == IF Has(f, "component") THEN f.component ELSE ""

\* The array-level checks of a FormList with the maxItems check left out.
listChecksMinOnly(f) ==
  IF Has(f, "minItems") /\ f.minItems > 0
    THEN <<Check([p |-> "minItems", value |-> f.minItems],
                 <<"needs at least", ToString(f.minItems), "rows">>)>>
    ELSE <<>>

\* The array-level checks of a FormList: minItems when positive, maxItems
\* when declared.
listChecks(f) ==
  (IF Has(f, "minItems") /\ f.minItems > 0
     THEN <<Check([p |-> "minItems", value |-> f.minItems],
                  <<"needs at least", ToString(f.minItems), "rows">>)>>
     ELSE <<>>)
    \o (IF Has(f, "maxItems")
          THEN <<Check([p |-> "maxItems", value |-> f.maxItems],
                       <<"allows at most", ToString(f.maxItems), "rows">>)>>
          ELSE <<>>)

isMultiple(f) ==
  Has(f, "ui") /\ Has(f.ui, "props") /\ Has(f.ui.props, "multiple") /\ f.ui.props.multiple

\* The columns a row shape gets an entry for: the columns of a Group column
\* in place of the Group, every other column as it is.
RECURSIVE rowColumns(_)
rowColumns(columns) ==
  IF columns = <<>> THEN <<>>
  ELSE LET col == Head(columns)
       IN  (IF componentOf(col) = "Group"
              THEN (IF Has(col, "columns") THEN col.columns ELSE <<>>)
              ELSE <<col>>)
             \o rowColumns(Tail(columns))

RECURSIVE buildFieldSchema(_, _), rowShapeOf(_, _)
buildFieldSchema(f, vals) ==
  LET label == labelOf(f)
      component == componentOf(f)
      rules == rulesOf(f)
      isRequired == isFieldRequired(f, vals)
      requiredMessage == getRequiredMessage(f)
  IN  IF component \in {"Autocomplete", "Select"} /\ isMultiple(f)
        THEN Piped(Union({"string", "number", "boolean", "undefined", "null", "array"}),
                   requiredCheck(isRequired, "arrayNonEmpty", requiredMessage))
      ELSE IF component \in {"Radio", "Select", "Autocomplete"}
        THEN Piped(Union({"string", "number", "boolean", "undefined", "null"}),
                   requiredCheck(isRequired, "present", requiredMessage))
      ELSE IF component \in {"Text", "Password", "Textarea", "Date", "Time", "DateTime"}
        THEN Piped(Union({"string", "undefined", "null"}),
                   requiredCheck(isRequired, "present", requiredMessage)
                     \o FlatMap(LAMBDA r : textRuleChecks(r, label), rules))
      ELSE IF component \in {"Number", "Slider", "Rating"}
        THEN Piped(Union({"number", "undefined", "null", "numericString"}),
                   requiredCheck(isRequired, "numberPresent", requiredMessage)
                     \o FlatMap(LAMBDA r : numberRuleChecks(r, label), rules))
      ELSE IF component \in {"Checkbox", "Switch"}
        THEN Piped(Union({"boolean", "undefined", "null"}),
                   requiredCheck(isRequired, "isTrue", requiredMessage))
      ELSE IF component = "FormList"
        THEN LET columns == IF Has(f, "columns") THEN f.columns ELSE <<>>
             IN  Piped([kind |-> "array", shape |-> rowShapeOf(rowColumns(columns), vals)],
                       listChecks(f))
      ELSE IF component = "Upload"
        THEN LET arrayRules == SelectSeq(rules, LAMBDA r : r.type = "array")
                 fallback == IF isRequired THEN 1 ELSE 0
                 minItems == IF arrayRules # <<>> /\ Has(Head(arrayRules), "minItems")
                               THEN Head(arrayRules).minItems ELSE fallback
                 message == IF arrayRules # <<>> /\ Has(Head(arrayRules), "message")
                              THEN <<Head(arrayRules).message>> ELSE requiredMessage
             IN  Piped(Union({"array", "undefined", "null"}),
                       IF minItems > 0
                         THEN <<Check([p |-> "minItems", value |-> minItems], message)>>
                         ELSE <<>>)
      ELSE IF SelectSeq(rules, LAMBDA r : r.type = "custom") # <<>>
        THEN Piped(Unknown,
                   FlatMap(LAMBDA r : <<CustomCheck(r)>>,
                           SelectSeq(rules, LAMBDA r : r.type = "custom")))
      ELSE IF isRequired
        THEN Piped(Unknown, <<Check([p |-> "present"], requiredMessage)>>)
      ELSE OptionalUnknown

\* An object shape: its keys in insertion order and the schema of each key,
\* a later assignment to a key replacing the earlier one.
Shape(fields, SchemaOf(_)) ==
  LET last(n) == CHOOSE i \in 1..Len(fields) :
                   /\ fields[i].name = n
                   /\ \A j \in (i + 1)..Len(fields) : fields[j].name # n
  IN  [keys |-> Unique([i \in 1..Len(fields) |-> fields[i].name]),
       at |-> [n \in {fields[i].name : i \in 1..Len(fields)} |-> SchemaOf(fields[last(n)])]]

rowShapeOf(columns, vals) == Shape(columns, LAMBDA col : buildFieldSchema(col, vals))

isHidden(f) == (Has(f, "hidden") /\ f.hidden) \/ componentOf(f) = "Hidden"

\* The schema buildValibotSchema assigns to the key of one top-level field.
entrySchema(f, vals) ==
  IF isHidden(f) THEN OptionalUnknown
  ELSE IF Has(f, "visibleWhen") /\ ~Truthy(evaluateCondition(f.visibleWhen, vals))
    THEN OptionalUnknown
  ELSE buildFieldSchema(f, vals)

\* The shape buildValibotSchema builds: one key per top-level field, a Group
\* that is not hidden getting none.
buildValibotSchema(p, vals) ==
  Shape(SelectSeq(p.input.fields, LAMBDA f : isHidden(f) \/ componentOf(f) # "Group"),
        LAMBDA f : entrySchema(f, vals))

\* typeof-style test of one option of a union; a numeric string is a string
\* that Number() turns into a number other than NaN.
Accepts(option, val) ==
  CASE option = "numericString" -> val.t = "string" /\ StringToNumber(val.s) # NaN
    [] option = "number" -> val.t = "number" /\ val # NaN
    [] OTHER -> val.t = option

Issue(path, message) == [path |-> path, message |-> message]

Prefixed(key, issues) ==
  [i \in 1..Len(issues) |-> Issue(<<key>> \o issues[i].path, issues[i].message)]

\* The key of array index i (the model's sequences start at 1).
IndexKey(i) == ToString(i - 1)

\* The issues every check of a pipe raises on a typed value, in pipe order.
RECURSIVE checkIssues(_, _, _)
checkIssues(pipes, val, vals) ==
  IF pipes = <<>> THEN <<>>
  ELSE (IF Requirement(Head(pipes).requirement, val, vals) THEN <<>>
        ELSE <<Issue(<<>>, MessageOf(Head(pipes), val, vals))>>)
         \o checkIssues(Tail(pipes), val, vals)

\* Running a schema on an input: whether the output is typed, and the issues
\* raised, in order.  Checks run only on a typed output.
RECURSIVE run(_, _, _), runObject(_, _, _, _), runItems(_, _, _, _)
run(sch, val, vals) ==
  LET base == sch.base
      result ==
        CASE base.kind \in {"optional", "unknown"} -> [typed |-> TRUE, issues |-> <<>>]
          [] base.kind = "union" ->
               IF \E option \in base.options : Accepts(option, val)
                 THEN [typed |-> TRUE, issues |-> <<>>]
                 ELSE [typed |-> FALSE, issues |-> <<Issue(<<>>, <<"Invalid type">>)>>]
          [] base.kind = "array" ->
               IF val.t = "array" THEN runItems(base.shape, val.a, 1, vals)
               ELSE [typed |-> FALSE, issues |-> <<Issue(<<>>, <<"Invalid type">>)>>]
      piped == IF val.t = "string" /\ base.kind = "union"
                    /\ "numericString" \in base.options
                 THEN StringToNumber(val.s) ELSE val
  IN  IF result.typed
        THEN [typed |-> TRUE,
              issues |-> result.issues \o checkIssues(sch.pipes, piped, vals)]
        ELSE result

\* v.object(shape) on one input: every entry of the shape on input[key].
runObject(shape, val, keys, vals) ==
  IF val.t # "object" THEN [typed |-> FALSE, issues |-> <<Issue(<<>>, <<"Invalid type">>)>>]
  ELSE IF keys = <<>> THEN [typed |-> TRUE, issues |-> <<>>]
  ELSE LET key == Head(keys)
           entry == run(shape.at[key], Lookup(val.o, key), vals)
           rest == runObject(shape, val, Tail(keys), vals)
       IN  [typed |-> entry.typed /\ rest.typed,
            issues |-> Prefixed(key, entry.issues) \o rest.issues]

\* v.array(rowSchema) on the items from index i on.
runItems(shape, items, i, vals) ==
  IF i > Len(items) THEN [typed |-> TRUE, issues |-> <<>>]
  ELSE LET item == runObject(shape, items[i], shape.keys, vals)
           rest == runItems(shape, items, i + 1, vals)
       IN  [typed |-> item.typed /\ rest.typed,
            issues |-> Prefixed(IndexKey(i), item.issues) \o rest.issues]

\* v.safeParse(schema, values).issues
safeParse(shape, vals) == runObject(shape, Obj(vals), shape.keys, vals).issues

\* issue.path.map(key).filter(k => k !== '').join('.'): the joined string,
\* held as the sequence of its dot-separated parts ("" is the empty sequence).
RECURSIVE Join(_)
Join(path) ==
  IF path = <<>> THEN <<>>
  ELSE (IF Head(path) = "" THEN <<>> ELSE Split(Head(path))) \o Join(Tail(path))

\* The errors object with every issue written over the entry of its path.
RECURSIVE errorsOverwritten(_)
errorsOverwritten(issues) ==
  IF issues = <<>> THEN EmptyObject
  ELSE LET before == errorsOverwritten(SubSeq(issues, 1, Len(issues) - 1))
           issue == issues[Len(issues)]
           path == Join(issue.path)
       IN  IF path # <<>>
             THEN [q \in DOMAIN before \cup {path} |->
                     IF q = path THEN [type |-> "validation", message |-> issue.message]
                     ELSE before[q]]
             ELSE before

\* The errors object after the loop over the issues.
RECURSIVE errorsOf(_)
errorsOf(issues) ==
  IF issues = <<>> THEN EmptyObject
  ELSE LET before == errorsOf(SubSeq(issues, 1, Len(issues) - 1))
           issue == issues[Len(issues)]
           path == Join(issue.path)
       IN  IF path # <<>> /\ path \notin DOMAIN before
             THEN [q \in DOMAIN before \cup {path} |->
                     IF q = path THEN [type |-> "validation", message |-> issue.message]
                     ELSE before[q]]
             ELSE before

\* The schema a resolver call validates with, were it built on the first call
\* only and kept.
schemaBuiltOnce(kept, p, vals) ==
  IF kept = Undef THEN buildValibotSchema(p, vals) ELSE kept

\* The schema a resolver call validates with: built from the values of the
\* call.
schemaOfCall(kept, p, vals) == buildValibotSchema(p, vals)

\* One call of the function createDynamicResolver returns: the schema it
\* built and the errors it returns.
resolve(kept, p, vals) ==
  LET built == schemaOfCall(kept, p, vals)
  IN  [schema |-> built, errors |-> errorsOf(safeParse(built, vals))]

-----------------------------------------------------------------------------
(* The form (ui/components/FieldRenderer.tsx, ui/widgets/FormListWidget.tsx) *)
(* and the part of react-hook-form it drives: the form's values, its default *)
(* values and the sets of paths marked dirty and touched.  A path is the     *)
(* sequence of the parts of a dotted name ("items.0.total").                 *)

\* The index of the array element an index key names (0 when it names none).
IndexOf(key, length) ==
  IF \E i \in 1..length : IndexKey(i) = key
    THEN CHOOSE i \in 1..length : IndexKey(i) = key
    ELSE 0

\* getValues(name): the value at a path of the form's values.
RECURSIVE GetAt(_, _)
GetAt(val, path) ==
  IF path = <<>> THEN val
  ELSE IF val.t = "object" THEN GetAt(Lookup(val.o, Head(path)), Tail(path))
  ELSE IF val.t = "array" /\ IndexOf(Head(path), Len(val.a)) > 0
    THEN GetAt(val.a[IndexOf(Head(path), Len(val.a))], Tail(path))
  ELSE Undef

\* The value with the value at a path replaced.
RECURSIVE SetAt(_, _, _)
SetAt(val, path, new) ==
  IF path = <<>> THEN new
  ELSE IF val.t = "array" /\ IndexOf(Head(path), Len(val.a)) > 0
    THEN Arr([val.a EXCEPT ![IndexOf(Head(path), Len(val.a))] = SetAt(@, Tail(path), new)])
  ELSE LET object == IF val.t = "object" THEN val.o ELSE EmptyObject
       IN  Obj([k \in DOMAIN object \cup {Head(path)} |->
                  IF k = Head(path) THEN SetAt(Lookup(object, k), Tail(path), new)
                  ELSE object[k]])

Form(vals, defaults, dirty, touched) ==
  [values |-> vals, defaults |-> defaults, dirty |-> dirty, touched |-> touched]

\* methods.setValue(name, value, options): with shouldDirty the path is dirty
\* exactly when the value differs from its default value, with shouldTouch
\* the path is touched.
setValue(form, path, val, options) ==
  Form(SetAt(Obj(form.values), path, val).o,
       form.defaults,
       IF options.shouldDirty
         THEN (IF GetAt(Obj(form.defaults), path) = val
                 THEN form.dirty \ {path} ELSE form.dirty \cup {path})
         ELSE form.dirty,
       IF options.shouldTouch THEN form.touched \cup {path} ELSE form.touched)

\* methods.reset(values, options) with keepDefaultValues false: the values
\* become the form's values and its default values.
reset(form, vals, options) ==
  Form(vals, vals,
       IF options.keepDirty THEN form.dirty ELSE {},
       IF options.keepTouched THEN form.touched ELSE {})

\* Object.entries(updates).forEach(([key, val]) => setValue(key, val, options))
RECURSIVE setValues(_, _, _, _)
setValues(form, keys, updates, options) ==
  IF keys = <<>> THEN form
  ELSE setValues(setValue(form, <<Head(keys)>>, updates[Head(keys)], options),
                 Tail(keys), updates, options)

\* values: the watched fields of the form's values.
\* useWatch reads each name as a path into the form's values; the result is
\* stored under the name itself (result[field] = watchedValues[index]).
watchedValues(p, vals) ==
  [n \in getWatchFields(p) |-> GetAt(Obj(vals), Split(n))]

NonEmpty(val) == val # Undef /\ val # Null /\ val # Str("")

\* The names the auto-clear effect puts into updates, in allFields order.
\* The mutant of fieldsToClear that clears a field whatever it holds.
fieldsToClearEvenWhenEmpty(p, vals, prev, formVals) ==
  LET names == [i \in 1..Len(p.allFields) |-> p.allFields[i].name]
      cleared(n) ==
        \E i \in 1..Len(p.allFields) :
          LET f == p.allFields[i]
          IN  /\ f.name = n
              /\ Has(f, "dependencies") /\ Len(f.dependencies) > 0
              /\ \E d \in Range(f.dependencies) :
                   ~StrictEquals(Lookup(vals, d), Lookup(prev, d))
  IN  Unique(SelectSeq(names, cleared))

fieldsToClear(p, vals, prev, formVals) ==
  LET names == [i \in 1..Len(p.allFields) |-> p.allFields[i].name]
      cleared(n) ==
        \E i \in 1..Len(p.allFields) :
          LET f == p.allFields[i]
          IN  /\ f.name = n
              /\ Has(f, "dependencies") /\ Len(f.dependencies) > 0
              /\ \E d \in Range(f.dependencies) :
                   ~StrictEquals(Lookup(vals, d), Lookup(prev, d))
              /\ NonEmpty(GetAt(Obj(formVals), <<n>>))
  IN  Unique(SelectSeq(names, cleared))

AutoClearOptions == [shouldValidate |-> TRUE, shouldDirty |-> TRUE, shouldTouch |-> TRUE]

\* The auto-clear effect: the form after it, given the watched values of this
\* render and those of the render before.
autoClear(p, form, vals, prev) ==
  IF DOMAIN prev = {} THEN form
  ELSE LET keys == fieldsToClear(p, vals, prev, form.values)
       IN  setValues(form, keys, [k \in Range(keys) |-> Null], AutoClearOptions)

\* computeFieldsInfo of a list of fields.
computeInfoOf(f) ==
  [name |-> f.name, expr |-> f.compute.expr,
   dependencies |-> IF Has(f.compute, "dependencies") THEN f.compute.dependencies
                    ELSE extractComputeDependencies(f.compute.expr),
   precision |-> IF Has(f.compute, "precision") THEN f.compute.precision ELSE NoPrecision,
   roundMode |-> IF Has(f.compute, "roundMode") THEN f.compute.roundMode ELSE "round"]

computeFieldsInfo(p) ==
  LET computed == SelectSeq(p.allFields, LAMBDA f : Has(f, "compute"))
  IN  [i \in 1..Len(computed) |-> computeInfoOf(computed[i])]

\* The mutant of depsSnapshot that leaves the values out of the snapshot.
depsSnapshotOfNames(info, vals) ==
  [i \in 1..Len(info.dependencies) |-> <<info.dependencies[i]>>]

\* dependencies.map((dep) => `${dep}:${values[dep]}`).join('|'), held as the
\* sequence of its dep and value parts.
depsSnapshot(info, vals) ==
  [i \in 1..Len(info.dependencies) |->
     <<info.dependencies[i], JsToString(Lookup(vals, info.dependencies[i]))>>]

\* Math.abs(a - b) > 0.0001
FarApart(a, b) ==
  LET difference == Subtract(a, b)
  IN  IF difference = NaN THEN FALSE
      ELSE IF ~IsFinite(difference) THEN TRUE
      ELSE Abs(difference.n) > Scale \div 10000

\* The mutant of shouldWrite without the tolerance for numbers.
shouldWriteWhenDifferent(computed, current) ==
  /\ computed # Undef
  /\ ~StrictEquals(computed, current)
  /\ computed # NaN

\* The mutant of shouldWrite without the test for undefined.
shouldWriteUndefinedToo(computed, current) ==
  /\ ~StrictEquals(computed, current)
  /\ computed # NaN
  /\ (computed.t # "number" \/ current.t # "number" \/ FarApart(computed, current))

\* The test that decides whether a computed value is written.
shouldWrite(computed, current) ==
  /\ computed # Undef
  /\ ~StrictEquals(computed, current)
  /\ computed # NaN
  /\ (computed.t # "number" \/ current.t # "number" \/ FarApart(computed, current))

\* The value the compute effect computes for one compute field, Undef when
\* it computes none (snapshot unchanged, or a dependency without a value).
computedFor(info, vals, prevSnapshots) ==
  IF info.name \in DOMAIN prevSnapshots
       /\ prevSnapshots[info.name] = depsSnapshot(info, vals) THEN Undef
  ELSE IF \E d \in Range(info.dependencies) : ~isValidComputeValue(Lookup(vals, d))
    THEN Undef
  ELSE evaluateCompute(info.expr, vals, info.dependencies, info.precision, info.roundMode)

\* updates of the compute effect.
computeUpdates(p, vals, prevSnapshots, formVals) ==
  LET infos == computeFieldsInfo(p)
      written == {i \in 1..Len(infos) :
                    shouldWrite(computedFor(infos[i], vals, prevSnapshots),
                                GetAt(Obj(formVals), <<infos[i].name>>))}
      last(n) == CHOOSE i \in written :
                   infos[i].name = n /\ \A j \in written : infos[j].name = n => j <= i
  IN  [n \in {infos[i].name : i \in written} |->
         computedFor(infos[last(n)], vals, prevSnapshots)]

\* prevDepsRef.current after the compute effect.
snapshotsAfter(p, vals, prevSnapshots) ==
  LET infos == computeFieldsInfo(p)
      names == {infos[i].name : i \in 1..Len(infos)}
      last(n) == CHOOSE i \in 1..Len(infos) :
                   infos[i].name = n /\ \A j \in 1..Len(infos) : infos[j].name = n => j <= i
  IN  [n \in DOMAIN prevSnapshots \cup names |->
         IF n \in names THEN depsSnapshot(infos[last(n)], vals) ELSE prevSnapshots[n]]

ComputeResetOptions ==
  [keepDirty |-> TRUE, keepTouched |-> TRUE, keepErrors |-> TRUE, keepDefaultValues |-> FALSE]

\* The compute effect: the form after it.
computeEffect(p, form, vals, prevSnapshots) ==
  LET updates == computeUpdates(p, vals, prevSnapshots, form.values)
  IN  IF DOMAIN updates = {} THEN form
      ELSE reset(form, updates @@ form.values, ComputeResetOptions)

\* getAllComputeFields(columns)
getAllComputeFields(columns) ==
  LET computed == SelectSeq(rowColumns(columns), LAMBDA col : Has(col, "compute"))
  IN  [i \in 1..Len(computed) |-> computeInfoOf(computed[i])]

RowComputeOptions == [shouldValidate |-> TRUE, shouldDirty |-> TRUE, shouldTouch |-> TRUE]

\* handleRowCompute(rowIndex, triggerFieldName): the form after it.
RECURSIVE rowComputeEach(_, _, _, _, _, _)
rowComputeEach(form, list, rowKey, trigger, rowValues, infos) ==
  IF infos = <<>> THEN form
  ELSE LET info == Head(infos)
           skip == \/ info.name = trigger
                   \/ trigger \notin Range(info.dependencies)
                   \/ \E d \in Range(info.dependencies) :
                        ~isValidComputeValue(Lookup(rowValues, d))
           computed == evaluateCompute(info.expr, rowValues, info.dependencies,
                                       info.precision, info.roundMode)
           next == IF ~skip /\ shouldWrite(computed, Lookup(rowValues, info.name))
                     THEN setValue(form, <<list.name, rowKey, info.name>>, computed,
                                   RowComputeOptions)
                     ELSE form
       IN  rowComputeEach(next, list, rowKey, trigger, rowValues, Tail(infos))

handleRowCompute(form, list, rowKey, trigger) ==
  LET infos == getAllComputeFields(IF Has(list, "columns") THEN list.columns ELSE <<>>)
      rowValues == GetAt(Obj(form.values), <<list.name, rowKey>>)
  IN  IF \A i \in 1..Len(infos) : trigger \notin Range(infos[i].dependencies) THEN form
      ELSE IF rowValues.t # "object" THEN form
      ELSE rowComputeEach(form, list, rowKey, trigger, rowValues.o, infos)

\* field.transform(value, formValues) for the transforms of the model.
Transform(transform, val, vals) ==
  CASE transform = "boxed" -> Arr(<<val>>)
    [] transform = "withCountry" -> Arr(<<val, Lookup(vals, "country")>>)
    [] OTHER -> val

\* The data react-hook-form hands to handleSubmit: the output of the
\* resolver, which holds the keys of the validator shape only.
validatedData(p, formVals) ==
  LET shape == buildValibotSchema(p, formVals)
  IN  [n \in Range(shape.keys) |-> Lookup(formVals, n)]

\* handleSubmit(data): the object passed to onSubmit.
handleSubmit(p, data, formVals) ==
  LET submitted == SelectSeq(p.allFields, LAMBDA f : ~(Has(f, "noSubmit") /\ f.noSubmit))
      names == {submitted[i].name : i \in 1..Len(submitted)}
      last(n) == CHOOSE i \in 1..Len(submitted) :
                   /\ submitted[i].name = n
                   /\ \A j \in 1..Len(submitted) : submitted[j].name = n => j <= i
  IN  [n \in names |->
         LET f == submitted[last(n)]
             val == IF n \in DOMAIN data THEN data[n] ELSE Lookup(formVals, n)
         IN  IF Has(f, "transform") THEN Transform(f.transform, val, formVals) ELSE val]

-----------------------------------------------------------------------------
(* Idle values of the variables, per component. *)

IdleCondition ==
  /\ condition = Undef
  /\ values = EmptyObject
  /\ condResult = Undef

IdleCompute ==
  /\ expr = Undef
  /\ computeValues = EmptyObject
  /\ dependencies = <<>>
  /\ precision = NoPrecision
  /\ roundMode = "round"
  /\ computeResult = Undef
  /\ otherValues = EmptyObject
  /\ otherResult = Undef
  /\ extracted = <<>>

IdleParser ==
  /\ schema = <<>>
  /\ parsed = Undef
  /\ dependencyGraph = EmptyObject
  /\ startField = ""
  /\ queue = <<>>
  /\ downstream = {}
  /\ iterations = 0
  /\ pc = "idle"

IdleFieldState ==
  /\ field = Undef
  /\ globalDisabled = FALSE
  /\ globalReadOnly = FALSE
  /\ fieldState = Undef
  /\ fieldStates = Undef

IdleWatch == watchFields = {}

IdleResolver ==
  /\ resolverParsed = Undef
  /\ snapshot = Undef
  /\ previous = Undef
  /\ validator = Undef
  /\ errors = EmptyObject

IdleForm ==
  /\ formParsed = Undef
  /\ formValues = EmptyObject
  /\ formDefaults = EmptyObject
  /\ dirtyFields = {}
  /\ touchedFields = {}
  /\ prevValues = EmptyObject
  /\ prevDeps = EmptyObject
  /\ blurred = <<>>
  /\ payload = Undef
  /\ passes = 0
  /\ clearedFields = {}

IdleList ==
  /\ listSchema = Undef
  /\ listRows = <<>>

IdleAsync ==
  /\ asyncFields = <<>>
  /\ asyncValues = EmptyObject
  /\ optionsMap = EmptyObject
  /\ optionDeps = EmptyObject
  /\ initializedFields = {}
  /\ requestIds = EmptyObject
  /\ inFlight = {}
  /\ issued = 0
  /\ latest = EmptyObject
  /\ answered = Undef

Init ==
  /\ op = "idle"
  /\ IdleCondition
  /\ IdleCompute
  /\ IdleParser
  /\ IdleFieldState
  /\ IdleWatch
  /\ IdleResolver
  /\ IdleForm
  /\ IdleList
  /\ IdleAsync

-----------------------------------------------------------------------------
(* SpecCondition: calls of evaluateCondition. *)

EvaluateCondition ==
  /\ op = "idle"
  /\ \E c \in Conditions, v \in Snapshots :
       /\ op' = "evaluateCondition"
       /\ condition' = c
       /\ values' = v
       /\ condResult' = evaluateCondition(c, v)
  /\ UNCHANGED <<computeVars, parserVars, stateVars, watchVars, validVars, formVars, listVars, asyncVars>>

NextCondition == EvaluateCondition

SpecCondition == Init /\ [][NextCondition]_vars

-----------------------------------------------------------------------------
(* SpecCompute: calls of evaluateCompute. *)

EvaluateCompute ==
  /\ op = "idle"
  /\ \E e \in ComputeExpressions, v \in ComputeSnapshots, d \in DependencyLists,
        p \in Precisions, m \in RoundModes :
       /\ p = NoPrecision => m = "round"
       /\ op' = "evaluateCompute"
       /\ expr' = e
       /\ computeValues' = v
       /\ dependencies' = d
       /\ precision' = p
       /\ roundMode' = m
       /\ computeResult' = evaluateCompute(e, v, d, p, m)
  /\ UNCHANGED <<otherValues, otherResult, extracted>>
  /\ UNCHANGED <<condVars, parserVars, stateVars, watchVars, validVars, formVars, listVars, asyncVars>>

NextCompute == EvaluateCompute

SpecCompute == Init /\ [][NextCompute]_vars

-----------------------------------------------------------------------------
(* SpecIsolation: evaluateCompute on two snapshots, the second being the    *)
(* first with one field overridden.                                          *)

IsolationSnapshots ==
  { Snapshot(p, q, t) : p \in {Undef, Dec(10, 0), Dec(12, 3456)},
                        q \in {Undef, Num(0), Dec(3, 0)},
                        t \in {Undef, Dec(1, 0)} }

OverrideValues == {Undef, Dec(1, 0), Dec(3, 0), Str("x")}

IsolationRoundings == {<<NoPrecision, "round">>, <<1, "floor">>, <<2, "round">>}

Override(vals, key, value) ==
  IF value = Undef THEN [x \in DOMAIN vals \ {key} |-> vals[x]]
  ELSE [x \in DOMAIN vals \cup {key} |-> IF x = key THEN value ELSE vals[x]]

EvaluateComputeOnBoth ==
  /\ op = "idle"
  /\ \E e \in ComputeExpressions, v \in IsolationSnapshots, d \in DependencyLists,
        r \in IsolationRoundings, key \in {"price", "quantity", "tax"},
        x \in OverrideValues :
       /\ op' = "evaluateComputeOnBoth"
       /\ expr' = e
       /\ computeValues' = v
       /\ otherValues' = Override(v, key, x)
       /\ dependencies' = d
       /\ precision' = r[1]
       /\ roundMode' = r[2]
       /\ computeResult' = evaluateCompute(e, v, d, r[1], r[2])
       /\ otherResult' = evaluateCompute(e, Override(v, key, x), d, r[1], r[2])
  /\ UNCHANGED extracted
  /\ UNCHANGED <<condVars, parserVars, stateVars, watchVars, validVars, formVars, listVars, asyncVars>>

NextIsolation == EvaluateComputeOnBoth

SpecIsolation == Init /\ [][NextIsolation]_vars

-----------------------------------------------------------------------------
(* SpecExtract: calls of extractDependencies on a compute expression. *)

ExtractLeaves ==
  {Var(n) : n \in {"a", "b", "price", "quantity", "tax"}}
    \cup {Lit(Dec(1, 0)), Lit(True), Lit(Null)}

ExtractExpressions ==
  ExtractLeaves
    \cup {Bin(o, l, r) : o \in {"+", "*", ">"}, l \in ExtractLeaves, r \in ExtractLeaves}
    \cup {MathCall("max", <<l, r>>) : l \in ExtractLeaves, r \in ExtractLeaves}
    \cup {Bin("+", Bin("*", Var("price"), Var("quantity")), Var("tax")), Invalid}

ExtractDependencies ==
  /\ op = "idle"
  /\ \E e \in ExtractExpressions :
       /\ op' = "extractDependencies"
       /\ expr' = e
       /\ extracted' = extractComputeDependencies(e)
  /\ UNCHANGED <<computeValues, dependencies, precision, roundMode, computeResult,
                 otherValues, otherResult>>
  /\ UNCHANGED <<condVars, parserVars, stateVars, watchVars, validVars, formVars, listVars, asyncVars>>

NextExtract == ExtractDependencies

SpecExtract == Init /\ [][NextExtract]_vars

-----------------------------------------------------------------------------
(* SpecParser: calls of parseSchema. *)

MaxFields == 3      \* number of top-level fields of a schema

ConditionOnB == [field |-> "b", eq |-> Num(1)]

FieldPool ==
  { [name |-> "a"],
    [name |-> "b", dependencies |-> <<"a">>],
    [name |-> "c", visibleWhen |-> ConditionOnB, defaultValue |-> Num(0)],
    [name |-> "total", compute |-> [expr |-> Bin("*", Var("price"), Var("quantity"))]],
    [name |-> "total",
     compute |-> [expr |-> Bin("+", Var("price"), Var("tax")),
                  dependencies |-> <<"a">>]],
    [name |-> "g", component |-> "Group",
     columns |-> << [name |-> "c",
                     requiredWhen |-> [and |-> <<[field |-> "a", eq |-> Num(1)],
                                                [field |-> "n", gt |-> Num(0)]>>]],
                    [name |-> "a", dependencies |-> <<"c">>] >>],
    [name |-> "a", dependencies |-> <<"a">>,
     disabledWhen |-> [not |-> ConditionOnB],
     requiredWhen |-> [or |-> <<[field |-> "c", empty |-> Bool(TRUE)]>>]],
    [name |-> "m", defaultValue |-> Num(1),
     compute |-> [expr |-> MathCall("max", <<Var("a"), Var("b")>>)]] }

Schemas == UNION { [1..k -> FieldPool] : k \in 1..MaxFields }

ParseSchema ==
  /\ op = "idle"
  /\ \E fields \in Schemas :
       /\ op' = "parseSchema"
       /\ schema' = fields
       /\ parsed' = parseSchema(fields)
  /\ UNCHANGED <<dependencyGraph, startField, queue, downstream, iterations, pc>>
  /\ UNCHANGED <<condVars, computeVars, stateVars, watchVars, validVars, formVars, listVars, asyncVars>>

NextParser == ParseSchema

SpecParser == Init /\ [][NextParser]_vars

-----------------------------------------------------------------------------
(* SpecDownstream: getDownstreamFields, one iteration of its while loop per *)
(* step.                                                                     *)

GraphNodes == {"a", "b", "c"}

StartNames == GraphNodes \cup {"z"}

\* Every Map from some of the nodes to sets of nodes.
Graphs == UNION { [keys -> SUBSET GraphNodes] : keys \in SUBSET GraphNodes }

\* const downstream = new Set(); const queue = [fieldName];
CallGetDownstreamFields ==
  /\ op = "idle"
  /\ \E graph \in Graphs, name \in StartNames :
       /\ op' = "getDownstreamFields"
       /\ dependencyGraph' = graph
       /\ startField' = name
       /\ queue' = <<name>>
       /\ downstream' = {}
       /\ iterations' = 0
       /\ pc' = "loop"
  /\ UNCHANGED <<schema, parsed>>
  /\ UNCHANGED <<condVars, computeVars, stateVars, watchVars, validVars, formVars, listVars, asyncVars>>

\* One iteration of while (queue.length > 0).
LoopIteration ==
  /\ pc = "loop"
  /\ queue # <<>>
  /\ LET current == Head(queue)
         dependents == IF current # "" /\ current \in DOMAIN dependencyGraph
                         THEN dependencyGraph[current] ELSE {}
         added == Unvisited(dependents, downstream)
     IN  \E order \in Orders(added) :
           /\ queue' = Tail(queue) \o order
           /\ downstream' = downstream \cup added
  /\ iterations' = iterations + 1
  /\ UNCHANGED <<op, schema, parsed, dependencyGraph, startField, pc>>
  /\ UNCHANGED <<condVars, computeVars, stateVars, watchVars, validVars, formVars, listVars, asyncVars>>

\* return downstream;
ReturnDownstream ==
  /\ pc = "loop"
  /\ queue = <<>>
  /\ pc' = "done"
  /\ UNCHANGED <<op, schema, parsed, dependencyGraph, startField, queue,
                 downstream, iterations>>
  /\ UNCHANGED <<condVars, computeVars, stateVars, watchVars, validVars, formVars, listVars, asyncVars>>

NextDownstream == CallGetDownstreamFields \/ LoopIteration \/ ReturnDownstream

SpecDownstream == Init /\ [][NextDownstream]_vars

-----------------------------------------------------------------------------
(* SpecFieldState: calls of computeFieldState. *)

Optional(key, choice) ==
  IF choice = {} THEN EmptyObject ELSE key :> (CHOOSE x \in choice : TRUE)

ConditionOnA == [field |-> "a", eq |-> Num(1)]

ConditionOnPath == [field |-> "a.b", empty |-> Bool(TRUE)]

ConditionOnN == [not |-> [field |-> "n", gt |-> Num(0)]]

StateFields ==
  { [name |-> "f"] @@ Optional("disabled", d) @@ Optional("disabledWhen", dw)
      @@ Optional("hidden", h) @@ Optional("visibleWhen", vw)
      @@ Optional("rules", r) @@ Optional("requiredWhen", rw)
      @@ Optional("readonly", ro) :
      d \in {{}, {TRUE}, {FALSE}},
      dw \in {{}, {ConditionOnA}, {ConditionOnPath}, {ConditionOnN}, {EmptyObject}},
      h \in {{}, {TRUE}},
      vw \in {{}, {ConditionOnA}},
      r \in {{}, {<<[type |-> "required"]>>}, {<<[type |-> "minLength", value |-> 1]>>}},
      rw \in {{}, {ConditionOnPath}},
      ro \in {{}, {TRUE}, {FALSE}} }

StateSnapshots ==
  { EmptyObject, [a |-> Num(1)], [a |-> Num(0), n |-> Num(1)],
    [a |-> Obj([b |-> Num(1)]), n |-> Num(0)], [a |-> Null, n |-> Num(1)],
    [a |-> Obj([b |-> Str(" ")])] }

ComputeFieldState ==
  /\ op = "idle"
  /\ \E f \in StateFields, v \in StateSnapshots, gd \in BOOLEAN, gr \in BOOLEAN :
       /\ op' = "computeFieldState"
       /\ field' = f
       /\ values' = v
       /\ globalDisabled' = gd
       /\ globalReadOnly' = gr
       /\ fieldState' = computeFieldState(f, v, gd, gr)
  /\ UNCHANGED <<condition, condResult, fieldStates>>
  /\ UNCHANGED <<computeVars, parserVars, watchVars, validVars, formVars, listVars, asyncVars>>

NextFieldState == ComputeFieldState

SpecFieldState == Init /\ [][NextFieldState]_vars

-----------------------------------------------------------------------------
(* SpecAllStates: calls of computeAllFieldStates. *)

Address == [name |-> "address", component |-> "Group",
            columns |-> <<[name |-> "city", component |-> "Text",
                           rules |-> <<[type |-> "required"]>>]>>]

Lines == [name |-> "lines", component |-> "FormList",
          columns |-> <<[name |-> "sku", component |-> "Text",
                         visibleWhen |-> [field |-> "kind", eq |-> Str("business")]]>>]

AllStatesPool ==
  { [name |-> "kind", component |-> "Select"],
    [name |-> "taxId", component |-> "Text",
     requiredWhen |-> [field |-> "kind", eq |-> Str("business")]],
    [name |-> "note", component |-> "Text", hidden |-> TRUE],
    [name |-> "memo", component |-> "Text", readonly |-> TRUE,
     disabledWhen |-> [field |-> "kind", empty |-> Bool(TRUE)]],
    Address,
    Lines }

\* Schemas of one or two fields with distinct names.
AllStatesSchemas ==
  {<<f>> : f \in AllStatesPool}
    \cup {pair \in AllStatesPool \X AllStatesPool : pair[1] # pair[2]}

AllStatesSnapshots ==
  {EmptyObject} \cup {[kind |-> v] : v \in {Null, Str("personal"), Str("business")}}

ComputeAllFieldStates ==
  /\ op = "idle"
  /\ \E fields \in AllStatesSchemas, v \in AllStatesSnapshots,
        gd \in BOOLEAN, gr \in BOOLEAN :
       /\ op' = "computeAllFieldStates"
       /\ schema' = fields
       /\ parsed' = parseSchema(fields)
       /\ values' = v
       /\ globalDisabled' = gd
       /\ globalReadOnly' = gr
       /\ fieldStates' = computeAllFieldStates(parseSchema(fields), v, gd, gr)
  /\ UNCHANGED <<condition, condResult, field, fieldState>>
  /\ UNCHANGED <<dependencyGraph, startField, queue, downstream, iterations, pc>>
  /\ UNCHANGED <<computeVars, watchVars, validVars, formVars, listVars, asyncVars>>

NextAllStates == ComputeAllFieldStates

SpecAllStates == Init /\ [][NextAllStates]_vars

-----------------------------------------------------------------------------
(* SpecWatch: the form parses its schema and derives the watch set from the *)
(* parsed schema (FieldRenderer.tsx: parseSchema, then getWatchFields).      *)

GetWatchFields ==
  /\ op = "idle"
  /\ \E fields \in Schemas :
       /\ op' = "getWatchFields"
       /\ schema' = fields
       /\ parsed' = parseSchema(fields)
       /\ watchFields' = getWatchFields(parseSchema(fields))
  /\ UNCHANGED <<dependencyGraph, startField, queue, downstream, iterations, pc>>
  /\ UNCHANGED <<condVars, computeVars, stateVars, validVars, formVars, listVars, asyncVars>>

NextWatch == GetWatchFields

SpecWatch == Init /\ [][NextWatch]_vars

-----------------------------------------------------------------------------
(* SpecRender: the form renders one field.  SchemaFormInner parses the       *)
(* schema, watches the fields getWatchFields names, assembles values from    *)
(* what useWatch returns and hands it to FieldRendererInner, which calls     *)
(* computeFieldState on it.  formValues is what react-hook-form holds, the   *)
(* complete values the resolver is given.                                    *)

RenderField ==
  /\ op = "idle"
  /\ \E f \in StateFields, fv \in StateSnapshots, gd \in BOOLEAN, gr \in BOOLEAN :
       \E p \in {parseSchema(<<f>>)} :
         \E watched \in {watchedValues(p, fv)} :
           /\ op' = "render"
           /\ schema' = <<f>>
           /\ parsed' = p
           /\ watchFields' = getWatchFields(p)
           /\ formValues' = fv
           /\ values' = watched
           /\ field' = f
           /\ globalDisabled' = gd
           /\ globalReadOnly' = gr
           /\ fieldState' = computeFieldState(f, watched, gd, gr)
  /\ UNCHANGED <<condition, condResult, fieldStates>>
  /\ UNCHANGED <<dependencyGraph, startField, queue, downstream, iterations, pc>>
  /\ UNCHANGED <<formParsed, formDefaults, dirtyFields, touchedFields, prevValues,
                 prevDeps, blurred, payload, passes, clearedFields>>
  /\ UNCHANGED <<computeVars, validVars, listVars, asyncVars>>

NextRender == RenderField

SpecRender == Init /\ [][NextRender]_vars

-----------------------------------------------------------------------------
(* SpecResolver: the form creates its resolver once from the parsed schema  *)
(* and the host calls it, any number of times, with the form's values.      *)

MaxRules == 2       \* number of rules a text field declares
MaxRows == 3        \* number of rows of a nested list

RequiredRule == [type |-> "required"]

RequiredWithMessage == [type |-> "required", message |-> "please fill in"]

OnBusiness == [field |-> "accountType", eq |-> Str("business")]

AccountType == [name |-> "accountType", component |-> "Select"]

TaxId == [name |-> "taxId", component |-> "Text", requiredWhen |-> OnBusiness]

BooleanFields ==
  { [name |-> "agree", component |-> c] @@ Optional("rules", r)
      @@ Optional("requiredWhen", rw) :
      c \in {"Checkbox", "Switch"},
      r \in {{}, {<<RequiredRule>>}, {<<RequiredWithMessage>>}},
      rw \in {{}, {OnBusiness}} }

TextRules ==
  { RequiredRule,
    [type |-> "minLength", value |-> 3],
    [type |-> "maxLength", value |-> 3, message |-> "too long"],
    [type |-> "pattern", regex |-> "^ab"],
    [type |-> "email"],
    [type |-> "url"],
    [type |-> "custom", validate |-> "needsValue"],
    [type |-> "custom", validate |-> "acceptAll"] }

RuleLists == UNION { [1..k -> TextRules] : k \in 0..MaxRules }

TextFields ==
  { [name |-> "nick", component |-> "Text"] @@ Optional("rules", r) :
      r \in {{}} \cup {{list} : list \in RuleLists} }

Sku == [name |-> "sku", component |-> "Text", rules |-> <<RequiredRule>>]

HiddenNote ==
  [name |-> "note", component |-> "Text", hidden |-> TRUE, rules |-> <<RequiredRule>>]

BusinessNote ==
  [name |-> "note", component |-> "Text", visibleWhen |-> OnBusiness,
   rules |-> <<RequiredRule>>]

ListFields ==
  { [name |-> "items", component |-> "FormList", columns |-> <<Sku>>]
      @@ Optional("minItems", lo) @@ Optional("maxItems", hi) :
      lo \in {{}, {0}, {1}, {2}}, hi \in {{}, {1}, {2}} }

City == [name |-> "city", component |-> "Text", rules |-> <<RequiredRule>>]

ResolverSchemas ==
  {<<AccountType, f>> : f \in BooleanFields}
    \cup {<<f>> : f \in TextFields}
    \cup {<<f>> : f \in ListFields}
    \cup { <<AccountType, TaxId>>,
           <<AccountType, BusinessNote>>,
           <<HiddenNote>>,
           <<[name |-> "note", component |-> "Hidden", rules |-> <<RequiredRule>>]>>,
           <<[name |-> "items", component |-> "FormList", columns |-> <<HiddenNote>>]>>,
           <<AccountType,
             [name |-> "items", component |-> "FormList", columns |-> <<BusinessNote>>]>>,
           <<[name |-> "address", component |-> "Group", columns |-> <<City>>]>>,
           <<[name |-> "address", component |-> "Group", hidden |-> TRUE,
              columns |-> <<City>>]>>,
           <<[name |-> "nick", component |-> "Text",
              rules |-> <<[type |-> "minLength", value |-> 3], RequiredRule, [type |-> "email"]>>],
             [name |-> "agree", component |-> "Checkbox", rules |-> <<RequiredRule>>]>> }

\* The fields that hold a value of their own in the form's values: the
\* children of a Group in place of the Group.
ValueFields(fields) == rowColumns(fields)

\* The values the form can hold for a field of each component category.
RECURSIVE FieldValues(_), SnapshotsOf(_)
FieldValues(f) ==
  LET component == componentOf(f)
  IN  IF component \in {"Checkbox", "Switch"} THEN {Undef, Null, False, True}
      ELSE IF component = "Select" THEN {Undef, Str("personal"), Str("business")}
      ELSE IF component = "Text" THEN {Undef, Null, Str(""), Str("ab"), Str("a@b.c")}
      ELSE IF component = "FormList"
        THEN LET rows == SnapshotsOf(rowColumns(f.columns))
             IN  {Undef} \cup {Arr(list) : list \in UNION {[1..k -> {Obj(r) : r \in rows}] : k \in 0..MaxRows}}
      ELSE {Undef, Str("ab")}

\* The values of a column of a list row.
CellValues(f) == FieldValues(f) \cap {Undef, Str("ab"), True, False}

SnapshotsOf(fields) ==
  IF fields = <<>> THEN {EmptyObject}
  ELSE { (Head(fields).name :> v) @@ rest :
           v \in CellValues(Head(fields)), rest \in SnapshotsOf(Tail(fields)) }

RECURSIVE SnapshotsFor(_)
SnapshotsFor(fields) ==
  IF fields = <<>> THEN {EmptyObject}
  ELSE { (Head(fields).name :> v) @@ rest :
           v \in FieldValues(Head(fields)), rest \in SnapshotsFor(Tail(fields)) }

\* const resolver = useMemo(() => createDynamicResolver(parsed), [parsed])
CreateDynamicResolver ==
  /\ op = "idle"
  /\ \E fields \in ResolverSchemas :
       /\ op' = "createDynamicResolver"
       /\ resolverParsed' = parseSchema(fields)
  /\ UNCHANGED <<snapshot, previous, validator, errors>>
  /\ UNCHANGED <<condVars, computeVars, parserVars, stateVars, watchVars, formVars, listVars, asyncVars>>

\* One call of the resolver with the values of the form.  A behaviour holds
\* two calls at most: a call reads the resolver's state and its own values
\* only, so a third call shows nothing the second does not.
CallResolver ==
  /\ op = "createDynamicResolver" \/ (op = "resolver" /\ previous = Undef)
  /\ \E vals \in SnapshotsFor(ValueFields(resolverParsed.input.fields)) \cup {EmptyObject} :
       LET call == resolve(validator, resolverParsed, vals)
       IN  /\ op' = "resolver"
           /\ snapshot' = vals
           /\ previous' = snapshot
           /\ validator' = call.schema
           /\ errors' = call.errors
  /\ UNCHANGED resolverParsed
  /\ UNCHANGED <<condVars, computeVars, parserVars, stateVars, watchVars, formVars, listVars, asyncVars>>

NextResolver == CreateDynamicResolver \/ CallResolver

SpecResolver == Init /\ [][NextResolver]_vars

-----------------------------------------------------------------------------
(* SpecForm: a mounted form.  The user edits fields; after an edit the      *)
(* effects of the render it causes run before the user acts again, the      *)
(* auto-clear effect before the compute effect; the onBlur handler of a     *)
(* list cell runs after them; a form whose values validate can be submitted. *)

Country == [name |-> "country", component |-> "Select"]

Price == [name |-> "price", component |-> "Number"]

Quantity == [name |-> "quantity", component |-> "Number"]

Total ==
  [name |-> "total", component |-> "Number",
   compute |-> [expr |-> Bin("*", Var("price"), Var("quantity")),
                dependencies |-> <<"price", "quantity">>]]

\* A chain as in the documentation's example: subtotal = price * 2,
\* tax = subtotal * rate, total = subtotal + tax, the compute fields disabled.
Rate == [name |-> "rate", component |-> "Number"]

Subtotal ==
  [name |-> "subtotal", component |-> "Number", disabled |-> TRUE,
   compute |-> [expr |-> Bin("*", Var("price"), Lit(Dec(2, 0))),
                dependencies |-> <<"price">>]]

Tax ==
  [name |-> "tax", component |-> "Number", disabled |-> TRUE,
   compute |-> [expr |-> Bin("*", Var("subtotal"), Var("rate")),
                dependencies |-> <<"subtotal", "rate">>]]

ChainTotal ==
  [name |-> "total", component |-> "Number", disabled |-> TRUE,
   compute |-> [expr |-> Bin("+", Var("subtotal"), Var("tax")),
                dependencies |-> <<"subtotal", "tax">>]]

\* doubled = price * 2, which the user can edit, and echo = doubled * 2.
Doubled ==
  [name |-> "doubled", component |-> "Number",
   compute |-> [expr |-> Bin("*", Var("price"), Lit(Dec(2, 0))),
                dependencies |-> <<"price">>]]

Echo ==
  [name |-> "echo", component |-> "Number", disabled |-> TRUE,
   compute |-> [expr |-> Bin("*", Var("doubled"), Lit(Dec(2, 0))),
                dependencies |-> <<"doubled">>]]

OneRow == Arr(<<Obj(EmptyObject)>>)

FormSchemas ==
  { <<Country, [name |-> "city", component |-> "Text", dependencies |-> <<"country">>]>>,
    <<Country, [name |-> "city", component |-> "Text", dependencies |-> <<"country">>,
                defaultValue |-> Str("ab")]>>,
    <<Price, Quantity, Total>>,
    <<Price, Subtotal, Rate, Tax, ChainTotal>>,
    <<Price, Doubled, Echo>>,
    <<[name |-> "a", component |-> "Text", dependencies |-> <<"b">>],
      [name |-> "b", component |-> "Text", dependencies |-> <<"a">>]>>,
    <<[name |-> "items", component |-> "FormList", defaultValue |-> OneRow,
       columns |-> <<Price, Quantity, Total>>]>>,
    <<Country,
      [name |-> "secret", component |-> "Text", noSubmit |-> TRUE],
      [name |-> "code", component |-> "Text", transform |-> "withCountry"]>>,
    <<[name |-> "address", component |-> "Group",
       columns |-> <<[name |-> "city", component |-> "Text", noSubmit |-> TRUE],
                     [name |-> "zip", component |-> "Text", transform |-> "boxed"]>>]>>,
    <<[name |-> "items", component |-> "FormList", defaultValue |-> OneRow,
       columns |-> <<[name |-> "sku", component |-> "Text"],
                     [name |-> "memo", component |-> "Text", noSubmit |-> TRUE]>>]>> }

\* The values a user can give a field of each component category.
InputValues(f) ==
  IF componentOf(f) = "Select" THEN {Null, Str("cn"), Str("us")}
  ELSE IF componentOf(f) = "Number" /\ Has(f, "compute")
    THEN {Null, Dec(3, 0), Dec(4, 1), Dec(4, 2)}
  ELSE IF componentOf(f) = "Number" THEN {Null, NaN, Str(""), Dec(2, 0), Dec(3, 0)}
  ELSE {Str(""), Str("ab")}

\* The inputs of the form: the path of an input and the field it edits.  A
\* field with disabled: true renders a disabled input, which takes no edit.
Inputs(p, formVals) ==
  LET fields == SelectSeq(ValueFields(p.input.fields),
                          LAMBDA f : ~(Has(f, "disabled") /\ f.disabled))
  IN  UNION { IF componentOf(fields[i]) = "FormList"
                THEN LET list == fields[i]
                         rows == Lookup(formVals, list.name)
                         columns == rowColumns(list.columns)
                     IN  IF rows.t # "array" THEN {}
                         ELSE { [path |-> <<list.name, IndexKey(r), columns[c].name>>,
                                 field |-> columns[c], list |-> {list}] :
                                  r \in 1..Len(rows.a), c \in 1..Len(columns) }
                ELSE { [path |-> <<fields[i].name>>, field |-> fields[i], list |-> {}] }
              : i \in 1..Len(fields) }

CurrentForm == Form(formValues, formDefaults, dirtyFields, touchedFields)

AutoClearDue == watchedValues(formParsed, formValues) # prevValues

ComputeDue ==
  LET infos == computeFieldsInfo(formParsed)
      vals == watchedValues(formParsed, formValues)
  IN  \E i \in 1..Len(infos) :
        ~(infos[i].name \in DOMAIN prevDeps
            /\ prevDeps[infos[i].name] = depsSnapshot(infos[i], vals))

Settled ==
  /\ op \notin {"idle", "submit"}
  /\ ~AutoClearDue
  /\ ~ComputeDue
  /\ blurred = <<>>

\* useForm({ defaultValues }) on the first render.
MountForm ==
  /\ op = "idle"
  /\ \E fields \in FormSchemas :
       /\ op' = "mount"
       /\ formParsed' = parseSchema(fields)
       /\ formValues' = parseSchema(fields).defaultValues
       /\ formDefaults' = parseSchema(fields).defaultValues
  /\ passes' = 0
  /\ clearedFields' = {}
  /\ UNCHANGED <<dirtyFields, touchedFields, prevValues, prevDeps, blurred, payload>>
  /\ UNCHANGED <<condVars, computeVars, parserVars, stateVars, watchVars, validVars, listVars, asyncVars>>

UserOptions == [shouldDirty |-> TRUE, shouldTouch |-> TRUE]

\* The user changes an input and leaves it: the field is dirty when its
\* value differs from its default, and touched.
UserInput ==
  /\ Settled
  /\ \E input \in Inputs(formParsed, formValues) : \E val \in InputValues(input.field) :
       \E form \in {setValue(CurrentForm, input.path, val, UserOptions)} :
         /\ formValues' = form.values
         /\ dirtyFields' = form.dirty
         /\ touchedFields' = form.touched
         /\ blurred' = IF input.list = {} THEN <<>> ELSE input.path
  /\ op' = "input"
  /\ passes' = 0
  /\ clearedFields' = {}
  /\ UNCHANGED <<formParsed, formDefaults, prevValues, prevDeps, payload>>
  /\ UNCHANGED <<condVars, computeVars, parserVars, stateVars, watchVars, validVars, listVars, asyncVars>>

\* The auto-clear effect of a render whose watched values changed.
AutoClearEffect ==
  /\ op \notin {"idle", "submit"}
  /\ AutoClearDue
  /\ \E vals \in {watchedValues(formParsed, formValues)} :
       \E form \in {autoClear(formParsed, CurrentForm, vals, prevValues)} :
         /\ formValues' = form.values
         /\ dirtyFields' = form.dirty
         /\ touchedFields' = form.touched
         /\ prevValues' = vals
         /\ clearedFields' = clearedFields \cup {n \in DOMAIN form.values :
                                      Lookup(form.values, n) # Lookup(formValues, n)}
  /\ op' = "autoClear"
  /\ UNCHANGED <<formParsed, formDefaults, prevDeps, blurred, payload, passes>>
  /\ UNCHANGED <<condVars, computeVars, parserVars, stateVars, watchVars, validVars, listVars, asyncVars>>

\* The compute effect of a render in which a dependency snapshot changed.
ComputeEffect ==
  /\ op \notin {"idle", "submit"}
  /\ ~AutoClearDue
  /\ ComputeDue
  /\ \E vals \in {watchedValues(formParsed, formValues)} :
       \E form \in {computeEffect(formParsed, CurrentForm, vals, prevDeps)} :
         /\ formValues' = form.values
         /\ formDefaults' = form.defaults
         /\ dirtyFields' = form.dirty
         /\ touchedFields' = form.touched
         /\ prevDeps' = snapshotsAfter(formParsed, vals, prevDeps)
  /\ op' = "compute"
  /\ passes' = passes + 1
  /\ UNCHANGED <<formParsed, prevValues, blurred, payload, clearedFields>>
  /\ UNCHANGED <<condVars, computeVars, parserVars, stateVars, watchVars, validVars, listVars, asyncVars>>

\* onBlur of a list cell: handleRowCompute(rowIndex, childField.name).
HandleRowCompute ==
  /\ op \notin {"idle", "submit"}
  /\ ~AutoClearDue
  /\ ~ComputeDue
  /\ blurred # <<>>
  /\ \E list \in {f \in Range(formParsed.input.fields) : f.name = blurred[1]} :
       \E form \in {handleRowCompute(CurrentForm, list, blurred[2], blurred[3])} :
         /\ formValues' = form.values
         /\ dirtyFields' = form.dirty
         /\ touchedFields' = form.touched
  /\ blurred' = <<>>
  /\ op' = "rowCompute"
  /\ UNCHANGED <<formParsed, formDefaults, prevValues, prevDeps, payload, passes, clearedFields>>
  /\ UNCHANGED <<condVars, computeVars, parserVars, stateVars, watchVars, validVars, listVars, asyncVars>>

\* methods.handleSubmit(handleSubmit)(): the resolver accepts the values and
\* handleSubmit builds the object for onSubmit.
Submit ==
  /\ Settled
  /\ resolve(Undef, formParsed, formValues).errors = EmptyObject
  /\ payload' = handleSubmit(formParsed, validatedData(formParsed, formValues), formValues)
  /\ op' = "submit"
  /\ UNCHANGED <<formParsed, formValues, formDefaults, dirtyFields, touchedFields,
                 prevValues, prevDeps, blurred, passes, clearedFields>>
  /\ UNCHANGED <<condVars, computeVars, parserVars, stateVars, watchVars, validVars, listVars, asyncVars>>

NextForm ==
  \/ MountForm
  \/ UserInput
  \/ AutoClearEffect
  \/ ComputeEffect
  \/ HandleRowCompute
  \/ Submit

SpecForm == Init /\ [][NextForm]_vars

-----------------------------------------------------------------------------
(* The rows of a nested list (ui/widgets/FormListWidget.tsx). *)

\* getFieldDefaultValue(columns): col.defaultValue ?? "" per column, the
\* columns of a Group in place of the Group.
RECURSIVE getFieldDefaultValue(_)
getFieldDefaultValue(columns) ==
  IF columns = <<>> THEN EmptyObject
  ELSE LET col == Head(columns)
           rest == getFieldDefaultValue(Tail(columns))
       IN  IF componentOf(col) = "Group" /\ Has(col, "columns")
             THEN rest @@ getFieldDefaultValue(col.columns)
             ELSE rest @@ (col.name :> IF Has(col, "defaultValue") /\ col.defaultValue # Null
                                         THEN col.defaultValue ELSE Str(""))

\* const { columns = [], minItems = 0, maxItems = Infinity } = schema
columnsOf(list) == IF Has(list, "columns") THEN list.columns ELSE <<>>

minItemsOf(list) == IF Has(list, "minItems") THEN list.minItems ELSE 0

\* fields.length >= maxItems
AtMaxItems(list, rows) == Has(list, "maxItems") /\ Len(rows) >= list.maxItems

handleAdd(list, rows) ==
  IF AtMaxItems(list, rows) THEN rows
  ELSE Append(rows, Obj(getFieldDefaultValue(columnsOf(list))))

handleCopy(list, rows, index) ==
  IF AtMaxItems(list, rows) THEN rows
  ELSE Append(rows, rows[index])

\* The mutant of handleRemove without the test against minItems.
handleRemoveUnguarded(list, rows, index) ==
  SubSeq(rows, 1, index - 1) \o SubSeq(rows, index + 1, Len(rows))

handleRemove(list, rows, index) ==
  IF Len(rows) <= minItemsOf(list) THEN rows
  ELSE SubSeq(rows, 1, index - 1) \o SubSeq(rows, index + 1, Len(rows))

-----------------------------------------------------------------------------
(* SpecList: a rendered nested list whose rows the user adds, copies and    *)
(* removes.                                                                  *)

ListSchemas ==
  { [name |-> "items", component |-> "FormList", copyable |-> TRUE,
     columns |-> <<[name |-> "sku", component |-> "Text"]>>]
      @@ Optional("minItems", lo) @@ Optional("maxItems", hi) :
      lo \in {{}, {0}, {1}, {2}}, hi \in {{}, {1}, {2}, {3}} }

WithinItems(list, rows) ==
  /\ minItemsOf(list) <= Len(rows)
  /\ Has(list, "maxItems") => Len(rows) <= list.maxItems

FilledRow == Obj([sku |-> Str("ab")])

\* The list is rendered with a row count within its limits.
MountList ==
  /\ op = "idle"
  /\ \E list \in ListSchemas, n \in 0..MaxRows :
       /\ WithinItems(list, [i \in 1..n |-> FilledRow])
       /\ listSchema' = list
       /\ listRows' = [i \in 1..n |-> FilledRow]
  /\ op' = "mountList"
  /\ UNCHANGED <<condVars, computeVars, parserVars, stateVars, watchVars, validVars,
                 formVars, asyncVars>>

HandleAdd ==
  /\ listSchema # Undef
  /\ Len(listRows) <= MaxRows
  /\ listRows' = handleAdd(listSchema, listRows)
  /\ op' = "handleAdd"
  /\ UNCHANGED listSchema
  /\ UNCHANGED <<condVars, computeVars, parserVars, stateVars, watchVars, validVars,
                 formVars, asyncVars>>

HandleCopy ==
  /\ listSchema # Undef
  /\ Len(listRows) <= MaxRows
  /\ \E index \in 1..Len(listRows) : listRows' = handleCopy(listSchema, listRows, index)
  /\ op' = "handleCopy"
  /\ UNCHANGED listSchema
  /\ UNCHANGED <<condVars, computeVars, parserVars, stateVars, watchVars, validVars,
                 formVars, asyncVars>>

HandleRemove ==
  /\ listSchema # Undef
  /\ \E index \in 1..Len(listRows) : listRows' = handleRemove(listSchema, listRows, index)
  /\ op' = "handleRemove"
  /\ UNCHANGED listSchema
  /\ UNCHANGED <<condVars, computeVars, parserVars, stateVars, watchVars, validVars,
                 formVars, asyncVars>>

NextList == MountList \/ HandleAdd \/ HandleCopy \/ HandleRemove

SpecList == Init /\ [][NextList]_vars

-----------------------------------------------------------------------------
(* Asynchronous options (useAsyncOptions in ui/components/FieldRenderer.tsx). *)

\* field.ui?.options ?? []
staticOptions(f) == IF Has(f, "ui") /\ Has(f.ui, "options") THEN f.ui.options ELSE <<>>

\* The state the reset effect leaves: the refs emptied, optionsMap set to the
\* static options of every field.
initialOptions(fields) ==
  [n \in {fields[i].name : i \in 1..Len(fields)} |->
     staticOptions(fields[CHOOSE i \in 1..Len(fields) :
                            fields[i].name = n /\ \A j \in i + 1..Len(fields) : fields[j].name # n])]

\* currentDepsSnapshot of a field
currentDepsSnapshot(f, vals) ==
  LET deps == IF Has(f, "dependencies") THEN f.dependencies ELSE <<>>
  IN  [d \in Range(deps) |-> Lookup(vals, d)]

\* shouldLoad of a field in the load effect.
shouldLoad(f, vals, initialized, prevSnapshots) ==
  /\ Has(f, "ui") /\ Has(f.ui, "optionRequest")
  /\ \/ f.name \notin initialized
     \/ \E d \in DOMAIN currentDepsSnapshot(f, vals) :
          ~StrictEquals(currentDepsSnapshot(f, vals)[d],
                        IF f.name \in DOMAIN prevSnapshots
                          THEN Lookup(prevSnapshots[f.name], d) ELSE Undef)

\* (requestIdsRef.current[fieldName] || 0) + 1
nextRequestId(ids, name) == (IF name \in DOMAIN ids THEN ids[name] ELSE 0) + 1

\* The load effect, field by field: the refs and the pending requests after
\* it.  A request holds its field, its id and the number it was issued as.
RECURSIVE loadEach(_, _, _)
loadEach(fields, vals, refs) ==
  IF fields = <<>> THEN refs
  ELSE LET f == Head(fields)
           id == nextRequestId(refs.ids, f.name)
           request == [field |-> f.name, id |-> id, number |-> refs.issued + 1,
                       fallback |-> staticOptions(f)]
           next ==
             IF shouldLoad(f, vals, refs.initialized, refs.deps)
               THEN [initialized |-> refs.initialized \cup {f.name},
                     deps |-> (f.name :> currentDepsSnapshot(f, vals)) @@ refs.deps,
                     ids |-> (f.name :> id) @@ refs.ids,
                     pending |-> refs.pending \cup {request},
                     issued |-> refs.issued + 1,
                     latest |-> (f.name :> refs.issued + 1) @@ refs.latest]
               ELSE refs
       IN  loadEach(Tail(fields), vals, next)

\* The options a request resolves to: the loaded ones, which name the
\* request, or on a rejection the static options of the field.
Loaded(request) == <<"loaded", request.number>>

\* The continuation after await: setOptionsMap when the id is still the
\* field's request id.
applyResponse(options, ids, request, result) ==
  IF request.field \in DOMAIN ids /\ ids[request.field] = request.id
    THEN (request.field :> result) @@ options
    ELSE options

-----------------------------------------------------------------------------
(* SpecAsync: the option requests of a rendered form.  The schema changes,  *)
(* the watched values change, and the pending requests are answered in any  *)
(* order.                                                                    *)

MaxRequests == 4     \* requests issued in one behaviour

CityOptions ==
  [name |-> "city", component |-> "Select", dependencies |-> <<"country">>,
   ui |-> [optionRequest |-> "loadCities", options |-> <<"any">>]]

KindOptions ==
  [name |-> "kind", component |-> "Select", ui |-> [optionRequest |-> "loadKinds"]]

AsyncSchemas == {<<CityOptions>>, <<KindOptions, CityOptions>>}

CountryValues == {Str("cn"), Str("us")}

Refs == [initialized |-> initializedFields, deps |-> optionDeps, ids |-> requestIds,
         pending |-> inFlight, issued |-> issued, latest |-> latest]

AfterLoad(refs) ==
  /\ initializedFields' = refs.initialized
  /\ optionDeps' = refs.deps
  /\ requestIds' = refs.ids
  /\ inFlight' = refs.pending
  /\ issued' = refs.issued
  /\ latest' = refs.latest

\* A render with a new fields array (the first render included): the reset
\* effect, then the load effect.
SchemaChange ==
  /\ op \in {"idle", "schemaChange", "valuesChange", "respond"}
  /\ issued < MaxRequests
  /\ \E fields \in AsyncSchemas :
       /\ asyncFields' = fields
       /\ optionsMap' = initialOptions(fields)
       /\ \E refs \in {loadEach(fields, asyncValues,
                                 [Refs EXCEPT !.initialized = {}, !.deps = EmptyObject,
                                              !.ids = EmptyObject])} :
            AfterLoad(refs)
  /\ op' = "schemaChange"
  /\ UNCHANGED <<asyncValues, answered>>
  /\ UNCHANGED <<condVars, computeVars, parserVars, stateVars, watchVars, validVars,
                 formVars, listVars>>

\* A render with new values: the load effect.
ValuesChange ==
  /\ op \in {"schemaChange", "valuesChange", "respond"}
  /\ issued < MaxRequests
  /\ \E v \in CountryValues \ {Lookup(asyncValues, "country")} :
       /\ asyncValues' = [country |-> v]
       /\ \E refs \in {loadEach(asyncFields, [country |-> v], Refs)} : AfterLoad(refs)
  /\ op' = "valuesChange"
  /\ UNCHANGED <<asyncFields, optionsMap, answered>>
  /\ UNCHANGED <<condVars, computeVars, parserVars, stateVars, watchVars, validVars,
                 formVars, listVars>>

\* The promise of a pending request settles and its continuation runs.
Respond ==
  /\ op \in {"schemaChange", "valuesChange", "respond"}
  /\ \E request \in inFlight : \E result \in {Loaded(request), request.fallback} :
       /\ optionsMap' = applyResponse(optionsMap, requestIds, request, result)
       /\ inFlight' = inFlight \ {request}
       /\ answered' = request
  /\ op' = "respond"
  /\ UNCHANGED <<asyncFields, asyncValues, optionDeps, initializedFields, requestIds,
                 issued, latest>>
  /\ UNCHANGED <<condVars, computeVars, parserVars, stateVars, watchVars, validVars,
                 formVars, listVars>>

NextAsync == SchemaChange \/ ValuesChange \/ Respond

SpecAsync == Init /\ [][NextAsync]_vars

-----------------------------------------------------------------------------
(* Claims about the condition evaluator. *)

Called(name) == op = name

\* C1: evaluateCondition returns false, without throwing, for every condition
\* of unrecognized shape (an object with none of the keys field/and/or/not,
\* such as {}, and a simple condition {field: f} without an operator key),
\* for every value snapshot.
C1_MalformedIsFalse ==
  (Called("evaluateCondition") /\ condition \in MalformedConditions)
    => condResult = False

\* The value a dot-path resolves to when its first segment is missing,
\* undefined, null or not an object: nothing can be read through it.
FirstSegmentBlocks(vals, fieldPath) ==
  LET parts == Split(fieldPath)
  IN  /\ Len(parts) > 1
      /\ \/ parts[1] \notin DOMAIN vals
         \/ vals[parts[1]].t # "object"

\* C2: for every well-formed condition tree (simple conditions, and/or/not)
\* and every value snapshot, also one where an intermediate segment of a
\* dot-path is undefined, null or a non-object, evaluateCondition returns
\* true or false and never throws; a path that runs into undefined/null
\* resolves to undefined.
C2_WellFormedTotal ==
  Called("evaluateCondition") =>
    /\ condition \in WellFormedConditions => condResult \in {True, False}
    /\ \A f \in FieldNames :
         FirstSegmentBlocks(values, f) => getFieldValue(values, f) = Undef

\* A condition on the path a.b was evaluated on a snapshot whose a is null.
C2_Witness ==
  /\ Called("evaluateCondition")
  /\ condition = [field |-> "a.b", empty |-> Bool(TRUE)]
  /\ "a" \in DOMAIN values
  /\ values["a"] = Null
  /\ condResult = True

-----------------------------------------------------------------------------
(* Claims about the compute evaluator. *)

\* The values the claim lists as invalid for a dependency.
ListedInvalid(v) ==
  v \in {Undef, Null, NaN} \/ (v.t = "string" /\ v.s \in {"", " "})

C4_OnlyDependenciesRead ==
  ( /\ Called("evaluateComputeOnBoth")
    /\ \A i \in 1..Len(dependencies) :
         Lookup(computeValues, dependencies[i]) = Lookup(otherValues, dependencies[i]) )
    => computeResult = otherResult

\* price * quantity + tax was evaluated with dependencies [price, quantity]
\* on two snapshots that hold different taxes.
C4_Witness ==
  /\ Called("evaluateComputeOnBoth")
  /\ expr = Bin("+", Bin("*", Var("price"), Var("quantity")), Var("tax"))
  /\ dependencies = <<"price", "quantity">>
  /\ computeValues = [price |-> Dec(10, 0), quantity |-> Dec(3, 0), tax |-> Dec(1, 0)]
  /\ otherValues = [price |-> Dec(10, 0), quantity |-> Dec(3, 0), tax |-> Dec(3, 0)]
  /\ computeResult = otherResult

\* C5: for every expr, snapshot, dependency list, precision and roundMode,
\* evaluateCompute returns without throwing and its result is never NaN,
\* +Infinity or -Infinity, also after the precision rounding step.
C5_ResultNeverNonFinite ==
  Called("evaluateCompute") => computeResult \notin {NaN, PosInf, NegInf, Throw}

\* The multiples of 10^-p next to n units (p <= Digits).
FloorMultiple(n, p) == (n \div TenTo(Digits - p)) * TenTo(Digits - p)

CeilMultiple(n, p) == -(((-n) \div TenTo(Digits - p)) * TenTo(Digits - p))

\* The nearest multiple, a tie going to the larger magnitude (half-up on the
\* magnitude, as toFixed rounds).
NearestMultiple(n, p) ==
  LET lo == FloorMultiple(n, p)
      hi == CeilMultiple(n, p)
  IN  IF n - lo < hi - n THEN lo
      ELSE IF hi - n < n - lo THEN hi
      ELSE IF n < 0 THEN lo ELSE hi

RoundedAsClaimed(n, p, mode) ==
  IF mode = "floor" THEN Num(FloorMultiple(n, p))
  ELSE IF mode = "ceil" THEN Num(CeilMultiple(n, p))
  ELSE Num(NearestMultiple(n, p))

\* The result of the call with no precision given, and with each round mode.
RawResult == evaluateCompute(expr, computeValues, dependencies, NoPrecision, "round")

ResultWith(mode) == evaluateCompute(expr, computeValues, dependencies, precision, mode)

\* C6: when precision p >= 0 is given and the raw result x is a finite
\* number, evaluateCompute returns x rounded to p decimal digits (floor: the
\* largest multiple of 10^-p <= x; ceil: the smallest multiple >= x; round:
\* the nearest multiple, ties half-up), and floor <= round <= ceil.
C6_RoundsToPrecision ==
  (Called("evaluateCompute") /\ precision >= 0 /\ IsFinite(RawResult)) =>
    /\ computeResult = RoundedAsClaimed(RawResult.n, precision, roundMode)
    /\ IsNumber(ResultWith("floor")) /\ IsNumber(ResultWith("round"))
    /\ IsNumber(ResultWith("ceil"))
    /\ NumLessEq(ResultWith("floor"), ResultWith("round"))
    /\ NumLessEq(ResultWith("round"), ResultWith("ceil"))

\* The set of field names the expression reads: its variables.
RECURSIVE FieldsRead(_)
FieldsRead(e) ==
  IF e.k = "var" THEN {e.name}
  ELSE IF e.k = "bin" THEN FieldsRead(e.l) \cup FieldsRead(e.r)
  ELSE IF e.k = "call" THEN UNION {FieldsRead(e.args[i]) : i \in 1..Len(e.args)}
  ELSE IF e.k = "cond" THEN FieldsRead(e.c) \cup FieldsRead(e.a) \cup FieldsRead(e.b)
  ELSE {}

\* C7: extractDependencies(expr) returns exactly the set of field names the
\* expression reads, deduplicated, built-in names excluded: {price, quantity,
\* tax} for 'price * quantity + tax' and {a, b} for 'Math.max(a,b)'.
C7_ExtractsFieldsRead ==
  (Called("extractDependencies") /\ expr # Invalid) =>
    /\ Range(extracted) = FieldsRead(expr)
    /\ Cardinality(Range(extracted)) = Len(extracted)

-----------------------------------------------------------------------------
(* Claims about the schema parser. *)

\* Every field of a schema, top-level or nested column at any depth.
RECURSIVE FieldsOfSchema(_)
FieldsOfSchema(fields) ==
  UNION { {fields[i]}
            \cup (IF Has(fields[i], "columns") THEN FieldsOfSchema(fields[i].columns)
                  ELSE {})
          : i \in 1..Len(fields) }

\* The fields a condition references through and/or/not.
RECURSIVE ReferencedFields(_)
ReferencedFields(cond) ==
  IF Has(cond, "field") THEN {cond.field}
  ELSE IF Has(cond, "and")
    THEN UNION {ReferencedFields(cond.and[i]) : i \in 1..Len(cond.and)}
  ELSE IF Has(cond, "or")
    THEN UNION {ReferencedFields(cond.or[i]) : i \in 1..Len(cond.or)}
  ELSE IF Has(cond, "not") THEN ReferencedFields(cond.not)
  ELSE {}

WhenFields(f, key) == IF Has(f, key) THEN ReferencedFields(f[key]) ELSE {}

\* The forward dependency set of a field, as the claim defines it.
ForwardSet(f) ==
  (IF Has(f, "dependencies") THEN Range(f.dependencies) ELSE {})
    \cup WhenFields(f, "visibleWhen") \cup WhenFields(f, "disabledWhen")
    \cup WhenFields(f, "requiredWhen")
    \cup (IF ~Has(f, "compute") THEN {}
          ELSE IF Has(f.compute, "dependencies") THEN Range(f.compute.dependencies)
          ELSE Range(extractExpressionVars(f.compute.expr)))

SchemaNames ==
  {"a", "b", "c", "g", "m", "n", "total", "price", "quantity", "tax", "max"}

InGraph(graph, d, f) == d \in DOMAIN graph /\ f \in graph[d]

Successors(graph, n) == IF n \in DOMAIN graph THEN graph[n] ELSE {}

RECURSIVE Closure(_, _)
Closure(graph, set) ==
  LET next == set \cup UNION {Successors(graph, n) : n \in set}
  IN  IF next = set THEN set ELSE Closure(graph, next)

\* The names reachable from name by one or more edges.
ReachableByEdges(graph, name) == Closure(graph, Successors(graph, name))

\* C9: for every finite dependency graph, including graphs with cycles and
\* self-loops, getDownstreamFields(name, graph) terminates (the queue
\* receives name and then each name once, when it enters the result, so the
\* loop runs at most once per name of the graph plus once, and it can always
\* go on or return) and returns exactly the set of names reachable from name
\* by one or more edges; name itself is in the result only when it lies on a
\* cycle.
C9_DownstreamIsReachableSet ==
  Called("getDownstreamFields") =>
    /\ iterations + Len(queue) = Cardinality(downstream) + 1
    /\ downstream \subseteq GraphNodes
    /\ iterations <= Cardinality(GraphNodes) + 1
    /\ pc = "loop" => ENABLED (LoopIteration \/ ReturnDownstream)
    /\ pc = "done" => downstream = ReachableByEdges(dependencyGraph, startField)

\* getDownstreamFields("a", a -> b -> c) returned {b, c}.
C9_Witness ==
  /\ Called("getDownstreamFields")
  /\ pc = "done"
  /\ startField = "a"
  /\ dependencyGraph = [a |-> {"b"}, b |-> {"c"}]
  /\ downstream = {"b", "c"}

-----------------------------------------------------------------------------
(* Claims about the field state engine. *)

\* C10: computeFieldState(field, values, globalDisabled, globalReadOnly)
\* .disabled equals (field.disabled is true) OR (disabledWhen evaluates true
\* on values) OR globalDisabled; with globalDisabled = true the result is
\* disabled whatever the field's own disabled flag or disabledWhen says.
C10_DisabledIsDisjunction ==
  Called("computeFieldState") =>
    /\ fieldState.disabled =
         ( \/ (Has(field, "disabled") /\ field.disabled = TRUE)
           \/ (Has(field, "disabledWhen")
                 /\ evaluateCondition(field.disabledWhen, values) = True)
           \/ globalDisabled )
    /\ globalDisabled => fieldState.disabled

\* Globally disabled, for a field that declares disabled: false and whose
\* disabledWhen is false on the snapshot.
C10_Witness ==
  /\ Called("computeFieldState")
  /\ globalDisabled
  /\ Has(field, "disabled") /\ field.disabled = FALSE
  /\ Has(field, "disabledWhen")
  /\ evaluateCondition(field.disabledWhen, values) = False
  /\ fieldState.disabled

-----------------------------------------------------------------------------
(* Claims about the watch set. *)

\* C11: getWatchFields(parsed) contains every key of parsed.dependencyGraph,
\* that is every field some field's conditions, explicit dependencies or
\* compute expression depends on.
C11_WatchCoversGraphKeys ==
  Called("getWatchFields") => DOMAIN parsed.dependencyGraph \subseteq watchFields

-----------------------------------------------------------------------------
(* Claims about the validation adapter. *)

ResolverFields == resolverParsed.input.fields

\* The field is required on the values: by a required rule, or by a
\* requiredWhen that evaluates true on them.
RequiredOn(f, vals) ==
  \/ \E i \in 1..Len(rulesOf(f)) : rulesOf(f)[i].type = "required"
  \/ Has(f, "requiredWhen") /\ evaluateCondition(f.requiredWhen, vals) = True

ErrorAt(path) == path \in DOMAIN errors

MessageAt(path) == errors[path].message

\* C12: after a resolver call, for every top-level Checkbox or Switch field
\* that is required on the validated values: the error map has no entry at
\* the field's path when its value is exactly true, and for any other value
\* (false, undefined, null, absent) it has an entry at that path holding the
\* required message.
C12_RequiredBooleanOnlyTrue ==
  Called("resolver") =>
    \A i \in 1..Len(ResolverFields) :
      LET f == ResolverFields[i]
      IN  (componentOf(f) \in {"Checkbox", "Switch"} /\ RequiredOn(f, snapshot)) =>
            IF Lookup(snapshot, f.name) = True
              THEN ~ErrorAt(<<f.name>>)
              ELSE ErrorAt(<<f.name>>) /\ MessageAt(<<f.name>>) = getRequiredMessage(f)

\* A required Switch whose value is false was validated and reported.
C12_Witness ==
  /\ Called("resolver")
  /\ \E i \in 1..Len(ResolverFields) :
       /\ ResolverFields[i].name = "agree"
       /\ componentOf(ResolverFields[i]) = "Switch"
       /\ RequiredOn(ResolverFields[i], snapshot)
  /\ Lookup(snapshot, "agree") = False
  /\ ErrorAt(<<"agree">>)

\* The field is invisible on the values: statically hidden, or its
\* visibleWhen evaluates false on them.
InvisibleOn(f, vals) ==
  \/ Has(f, "hidden") /\ f.hidden
  \/ componentOf(f) = "Hidden"
  \/ Has(f, "visibleWhen") /\ evaluateCondition(f.visibleWhen, vals) # True

\* No entry of the error map is at the path or below it.
NoErrorUnder(path) ==
  \A q \in DOMAIN errors :
    ~(Len(q) >= Len(path) /\ SubSeq(q, 1, Len(path)) = path)

TopLevelInvisibleNeverReported ==
  \A i \in 1..Len(ResolverFields) :
    InvisibleOn(ResolverFields[i], snapshot) => NoErrorUnder(<<ResolverFields[i].name>>)

ColumnInvisibleNeverReported ==
  \A i \in 1..Len(ResolverFields) :
    LET f == ResolverFields[i]
    IN  (componentOf(f) = "FormList" /\ Has(f, "columns")) =>
          \A c \in 1..Len(f.columns), row \in 0..MaxRows :
            InvisibleOn(f.columns[c], snapshot) =>
              ~ErrorAt(<<f.name, ToString(row), f.columns[c].name>>)

\* C13: after a resolver call, a field that is invisible on the validated
\* values (statically hidden, or visibleWhen false) has no entry in the error
\* map, whether it is a top-level field or a column of a nested list.
C13_InvisibleNeverReported ==
  Called("resolver") =>
    TopLevelInvisibleNeverReported /\ ColumnInvisibleNeverReported

\* The value does not satisfy the required check of the field's category.
Missing(f, val) ==
  IF componentOf(f) \in {"Checkbox", "Switch"} THEN val # True
  ELSE val \in {Undef, Null, Str("")}

\* C14: after every call of a resolver created once, the first call and any
\* later one alike, a visible top-level field that declares requiredWhen and
\* no rules has an entry in the error map exactly when requiredWhen evaluates
\* true on the values of this call and the field's value is missing; the
\* values of the call before play no part.
C14_RequirednessIsCurrent ==
  Called("resolver") =>
    \A i \in 1..Len(ResolverFields) :
      LET f == ResolverFields[i]
      IN  (Has(f, "requiredWhen") /\ ~Has(f, "rules") /\ ~InvisibleOn(f, snapshot)) =>
            (ErrorAt(<<f.name>>)
               <=> /\ evaluateCondition(f.requiredWhen, snapshot) = True
                   /\ Missing(f, Lookup(snapshot, f.name)))

\* The resolver was called with a business account and no taxId, then with a
\* personal account and no taxId: the second call reports nothing at taxId.
C14_Witness ==
  /\ Called("resolver")
  /\ ResolverFields = <<AccountType, TaxId>>
  /\ previous # Undef
  /\ Lookup(previous, "accountType") = Str("business")
  /\ Lookup(previous, "taxId") = Undef
  /\ Lookup(snapshot, "accountType") = Str("personal")
  /\ Lookup(snapshot, "taxId") = Undef
  /\ ~ErrorAt(<<"taxId">>)

\* C15: after a resolver call, for every top-level Group field that is not
\* hidden and every child of it that carries a required rule: when the
\* child's value is absent from the validated values, the error map has an
\* entry at the child's own path.
C15_GroupChildrenValidated ==
  Called("resolver") =>
    \A i \in 1..Len(ResolverFields) :
      LET g == ResolverFields[i]
      IN  (componentOf(g) = "Group" /\ ~InvisibleOn(g, snapshot) /\ Has(g, "columns")) =>
            \A c \in 1..Len(g.columns) :
              LET child == g.columns[c]
              IN  (RequiredOn(child, snapshot) /\ ~InvisibleOn(child, snapshot)
                     /\ Lookup(snapshot, child.name) = Undef)
                    => ErrorAt(<<child.name>>)

TextComponents == {"Text", "Password", "Textarea", "Date", "Time", "DateTime"}

\* C16: after a resolver call, a visible top-level text field that is not
\* required on the validated values (no required rule; requiredWhen absent
\* or not true) and whose value is undefined, null or the empty string has
\* no entry in the error map, whichever rules it declares.
C16_AbsentPassesWhenNotRequired ==
  Called("resolver") =>
    \A i \in 1..Len(ResolverFields) :
      LET f == ResolverFields[i]
      IN  (componentOf(f) \in TextComponents /\ ~InvisibleOn(f, snapshot)
             /\ ~RequiredOn(f, snapshot)
             /\ Lookup(snapshot, f.name) \in {Undef, Null, Str("")})
            => ~ErrorAt(<<f.name>>)

\* The issues of the latest call, computed again from the validator it built.
IssuesRaised == safeParse(validator, snapshot)

IssuesAt(path) == SelectSeq(IssuesRaised, LAMBDA issue : Join(issue.path) = path)

\* The rule is violated by a value that is present.
Violates(rule, val, vals) ==
  CASE rule.type = "minLength" -> ~Absent(val) /\ Len(StringOf(val)) < rule.value
    [] rule.type = "maxLength" -> ~Absent(val) /\ Len(StringOf(val)) > rule.value
    [] rule.type = "pattern" -> ~Absent(val) /\ StringOf(val) \notin PatternStrings(rule.regex)
    [] rule.type = "email" -> ~Absent(val) /\ StringOf(val) \notin EmailStrings
    [] rule.type = "url" -> ~Absent(val) /\ StringOf(val) \notin UrlStrings
    [] rule.type = "custom" -> Validate(rule.validate, val, vals) # True
    [] OTHER -> FALSE

RuleMessage(rule, f, val, vals) ==
  MessageOf(Head(textRuleChecks(rule, labelOf(f))), val, vals)

\* The messages a text field's value earns: that of the required check first,
\* then those of the violated rules in the order they are declared.
ExpectedMessages(f, val, vals) ==
  (IF RequiredOn(f, vals) /\ Missing(f, val) THEN <<getRequiredMessage(f)>> ELSE <<>>)
    \o FlatMap(LAMBDA rule : IF Violates(rule, val, vals)
                               THEN <<RuleMessage(rule, f, val, vals)>> ELSE <<>>,
               rulesOf(f))

\* C17: after a resolver call, the error map has an entry for exactly the
\* paths at which an issue was raised, each holding the message of the first
\* issue raised at its path; and for a visible top-level text field that
\* first message is the required message when the required check fails, else
\* the message of the first violated rule in declaration order.
C17_OneEntryPerPathFirstMessage ==
  Called("resolver") =>
    /\ DOMAIN errors = {Join(IssuesRaised[k].path) : k \in 1..Len(IssuesRaised)} \ {<<>>}
    /\ \A path \in DOMAIN errors : MessageAt(path) = Head(IssuesAt(path)).message
    /\ \A i \in 1..Len(ResolverFields) :
         LET f == ResolverFields[i]
             val == Lookup(snapshot, f.name)
             expected == ExpectedMessages(f, val, snapshot)
         IN  (componentOf(f) \in TextComponents /\ ~InvisibleOn(f, snapshot)) =>
               /\ ErrorAt(<<f.name>>) <=> expected # <<>>
               /\ ErrorAt(<<f.name>>) => MessageAt(<<f.name>>) = Head(expected)

\* Two fields failed in one call, and one of them raised two issues: nick
\* ("ab") violates minLength and then email, agree is not checked.
C17_Witness ==
  /\ Called("resolver")
  /\ Len(ResolverFields) = 2
  /\ Lookup(snapshot, "nick") = Str("ab")
  /\ Len(IssuesAt(<<"nick">>)) = 2
  /\ MessageAt(<<"nick">>) = <<"nick", "at least", "3", "characters">>
  /\ ErrorAt(<<"agree">>)

MinItemsOf(f) == IF Has(f, "minItems") THEN f.minItems ELSE 0

\* n exceeds maxItems; an absent maxItems is unbounded.
ExceedsMaxItems(f, n) == Has(f, "maxItems") /\ n > f.maxItems

\* Row r of the list value violates a rule of column col.
RowViolates(col, row, vals) ==
  ExpectedMessages(col, Lookup(row.o, col.name), vals) # <<>>

\* C20: after a resolver call, for a visible top-level FormList field whose
\* value is an array of n rows: a row that violates a column rule has an
\* entry at list.index.column and a row that violates none has no entry; and
\* when every row satisfies its columns, the list's own path has an entry
\* exactly when n < minItems or n > maxItems (minItems 0 and maxItems
\* unbounded when absent), holding the minItems message in the first case
\* and the maxItems message otherwise.
C20_ListBounds ==
  Called("resolver") =>
    \A i \in 1..Len(ResolverFields) :
      LET f == ResolverFields[i]
          val == Lookup(snapshot, f.name)
          n == Len(val.a)
          columns == f.columns
      IN  (componentOf(f) = "FormList" /\ ~InvisibleOn(f, snapshot) /\ val.t = "array"
             /\ \A c \in 1..Len(columns) :
                  componentOf(columns[c]) \in TextComponents
                    /\ ~InvisibleOn(columns[c], snapshot)) =>
            /\ \A r \in 1..n, c \in 1..Len(columns) :
                 ErrorAt(<<f.name, ToString(r - 1), columns[c].name>>)
                   <=> RowViolates(columns[c], val.a[r], snapshot)
            /\ (\A r \in 1..n, c \in 1..Len(columns) :
                  ~RowViolates(columns[c], val.a[r], snapshot)) =>
                 /\ ErrorAt(<<f.name>>) <=> (n < MinItemsOf(f) \/ ExceedsMaxItems(f, n))
                 /\ n < MinItemsOf(f) =>
                      MessageAt(<<f.name>>) = <<"needs at least", ToString(f.minItems), "rows">>
                 /\ (ExceedsMaxItems(f, n) /\ ~(n < MinItemsOf(f))) =>
                      MessageAt(<<f.name>>) = <<"allows at most", ToString(f.maxItems), "rows">>

\* A list with maxItems 2 was validated with three rows that all satisfy
\* their columns, and the list's own path was reported.
C20_Witness ==
  /\ Called("resolver")
  /\ \E i \in 1..Len(ResolverFields) :
       /\ ResolverFields[i].name = "items"
       /\ Has(ResolverFields[i], "maxItems")
       /\ ResolverFields[i].maxItems = 2
       /\ ResolverFields[i].columns = <<Sku>>
  /\ Lookup(snapshot, "items").t = "array"
  /\ Len(Lookup(snapshot, "items").a) = 3
  /\ \A r \in 1..3 : Lookup(Lookup(snapshot, "items").a[r].o, "sku") = Str("ab")
  /\ ErrorAt(<<"items">>)
  /\ DOMAIN errors = {<<"items">>}

-----------------------------------------------------------------------------
(* Claims about the form. *)

FormFields == formParsed.input.fields

IsNoSubmit(f) == Has(f, "noSubmit") /\ f.noSubmit

\* The payload holds nothing under the name of a noSubmit field at the top
\* level (top-level fields and children of a Group).
NoSubmitAbsentAtTopLevel ==
  \A f \in FieldsOfSchema(FormFields) : IsNoSubmit(f) => f.name \notin DOMAIN payload

\* No row of a submitted list holds a value of a noSubmit column.
NoSubmitAbsentInRows ==
  \A i \in 1..Len(FormFields) :
    LET list == FormFields[i]
    IN  (componentOf(list) = "FormList" /\ list.name \in DOMAIN payload
           /\ payload[list.name].t = "array") =>
          \A r \in 1..Len(payload[list.name].a), c \in 1..Len(list.columns) :
            IsNoSubmit(list.columns[c]) =>
              list.columns[c].name \notin DOMAIN payload[list.name].a[r].o

\* A submitted top-level field or Group child holds its transformed value
\* when it declares transform, its raw value otherwise.
SubmittedValuesTransformed ==
  \A f \in Range(ValueFields(FormFields)) :
    ~IsNoSubmit(f) =>
      /\ f.name \in DOMAIN payload
      /\ payload[f.name] =
           IF Has(f, "transform")
             THEN Transform(f.transform, Lookup(formValues, f.name), formValues)
             ELSE Lookup(formValues, f.name)

\* C19: after a submit, the payload holds no value of a field marked
\* noSubmit, be it a top-level field, a child of a Group or a column of a
\* nested list; a submitted field that declares transform holds
\* transform(value, allValues), and one that declares none its raw value.
C19_PayloadOmitsNoSubmit ==
  Called("submit") =>
    /\ NoSubmitAbsentAtTopLevel
    /\ NoSubmitAbsentInRows
    /\ SubmittedValuesTransformed

SystemWrites == {"autoClear", "compute", "rowCompute"}

\* C18: a step in which the form writes on its own behalf (the auto-clear
\* effect, the compute effect, the row compute of a nested list) marks no
\* path dirty and no path touched that was not so before.
C18_SystemWritesMarkNothing ==
  [][op' \in SystemWrites =>
       (dirtyFields' \subseteq dirtyFields /\ touchedFields' \subseteq touchedFields)]_vars

-----------------------------------------------------------------------------
(* Membership against equality. *)

EqOf(cond, x) == [field |-> cond.field, eq |-> x]
NeOf(cond, x) == [field |-> cond.field, ne |-> x]

IsMembership(cond, key) ==
  /\ isSimpleCondition(cond)
  /\ DOMAIN cond = {"field", key}
  /\ cond[key].t = "array"

\* in: S is true exactly when eq: x is true for some x in S.
InLikeSomeEq ==
  (Called("evaluateCondition") /\ IsMembership(condition, "in")) =>
    condResult = Bool(\E i \in 1..Len(condition.in.a) :
                        evaluateCondition(EqOf(condition, condition.in.a[i]), values) = True)

\* notIn: S is true exactly when ne: x is true for every x in S.
NotInLikeEveryNe ==
  (Called("evaluateCondition") /\ IsMembership(condition, "notIn")) =>
    condResult = Bool(\A i \in 1..Len(condition.notIn.a) :
                        evaluateCondition(NeOf(condition, condition.notIn.a[i]), values) = True)

\* C21: membership uses the strict equality of eq: a condition {field, in: S}
\* evaluates to true exactly when {field, eq: x} does for some x in S, and
\* {field, notIn: S} exactly when {field, ne: x} does for every x in S.
C21_MembershipIsStrictEquality == InLikeSomeEq /\ NotInLikeEveryNe

-----------------------------------------------------------------------------
(* The map of all field states. *)

\* C22: the map computeAllFieldStates returns has an entry for every field of
\* parsed.allFields (Group children and list columns included), and each
\* entry is computeFieldState of that field on the same arguments.
C22_EveryFieldHasItsState ==
  Called("computeAllFieldStates") =>
    \A i \in 1..Len(parsed.allFields) :
      LET f == parsed.allFields[i]
      IN  /\ f.name \in DOMAIN fieldStates
          /\ fieldStates[f.name] = computeFieldState(f, values, globalDisabled, globalReadOnly)

\* The part of C22 that is about the top-level fields.
TopLevelFieldsHaveTheirState ==
  Called("computeAllFieldStates") =>
    \A i \in 1..Len(parsed.input.fields) :
      LET f == parsed.input.fields[i]
      IN  /\ f.name \in DOMAIN fieldStates
          /\ fieldStates[f.name] = computeFieldState(f, values, globalDisabled, globalReadOnly)

-----------------------------------------------------------------------------
(* Claims about the writes of computed values. *)

\* Two numbers at most 0.0001 apart.
Near(a, b) == IsFinite(a) /\ IsFinite(b) /\ Abs(a.n - b.n) <= Scale \div 10000

MateriallyDifferent(computed, stored) ==
  /\ computed # Undef
  /\ computed # NaN
  /\ computed # stored
  /\ ~Near(computed, stored)

\* What one pass may do to the value stored for a compute field.
WritesOnlyMaterial(computed, stored, after) ==
  /\ after # stored => (after = computed /\ MateriallyDifferent(computed, stored))
  /\ Near(computed, stored) => after = stored

TopLevelPassWritesOnlyMaterial ==
  op' = "compute" =>
    LET infos == computeFieldsInfo(formParsed)
        vals == watchedValues(formParsed, formValues)
    IN  \A i \in 1..Len(infos) :
          WritesOnlyMaterial(
            evaluateCompute(infos[i].expr, vals, infos[i].dependencies,
                            infos[i].precision, infos[i].roundMode),
            Lookup(formValues, infos[i].name),
            Lookup(formValues', infos[i].name))

RowPassWritesOnlyMaterial ==
  op' = "rowCompute" =>
    \A list \in {f \in Range(formParsed.input.fields) : f.name = blurred[1]} :
      LET infos == getAllComputeFields(list.columns)
          row == GetAt(Obj(formValues), <<list.name, blurred[2]>>)
      IN  \A i \in 1..Len(infos) :
            WritesOnlyMaterial(
              evaluateCompute(infos[i].expr, row.o, infos[i].dependencies,
                              infos[i].precision, infos[i].roundMode),
              GetAt(Obj(formValues), <<list.name, blurred[2], infos[i].name>>),
              GetAt(Obj(formValues'), <<list.name, blurred[2], infos[i].name>>))

\* C23: a pass of the compute effect, or of the row compute of a list,
\* changes the value stored for a compute field only to the computed value
\* and only when that value is defined, is not NaN, differs from the stored
\* value and is not a number within 0.0001 of a stored number; when it is
\* within 0.0001 of the stored number the stored value stays.
C23_WritesOnlyMaterialChanges ==
  [][TopLevelPassWritesOnlyMaterial /\ RowPassWritesOnlyMaterial]_vars

\* The compute effect has evaluated total = price * quantity = 4 against the
\* stored 4.0001 and has left the stored value.
C23_Witness ==
  /\ Called("compute")
  /\ "total" \in DOMAIN formValues
  /\ formValues.total = Dec(4, 1)
  /\ Lookup(formValues, "price") = Dec(2, 0)
  /\ Lookup(formValues, "quantity") = Dec(2, 0)
  /\ "total" \in DOMAIN prevDeps
  /\ prevDeps.total = <<<<"price", "2">>, <<"quantity", "2">>>>

-----------------------------------------------------------------------------
(* Claims about the convergence of the compute effect. *)

ComputeFields(p) == SelectSeq(p.allFields, LAMBDA f : Has(f, "compute"))

\* Every compute field whose dependencies all hold valid values stores a
\* value within 0.0001 of its expression on the stored values.
ComputeConsistent ==
  LET infos == computeFieldsInfo(formParsed)
  IN  \A i \in 1..Len(infos) :
        (\A d \in Range(infos[i].dependencies) : isValidComputeValue(Lookup(formValues, d)))
          => Near(Lookup(formValues, infos[i].name),
                  evaluateCompute(infos[i].expr, formValues, infos[i].dependencies,
                                  infos[i].precision, infos[i].roundMode))

\* No effect is due: the compute effect issues no further write.
Converged == Settled /\ ComputeConsistent

\* The user cannot edit a compute field: each renders a disabled input.
ComputeFieldsLocked ==
  /\ formParsed # Undef
  /\ \A f \in Range(ComputeFields(formParsed)) : Has(f, "disabled") /\ f.disabled

-----------------------------------------------------------------------------
(* Claims about dependencies without a valid value. *)

\* What a run of the compute effect does for one compute field: it records
\* the snapshot of the dependencies, and it leaves the stored value when a
\* dependency has no valid value or the snapshot is the recorded one.
KeepsOnInvalidOrSame(info, vals) ==
  LET taken == depsSnapshot(info, vals)
      same == info.name \in DOMAIN prevDeps /\ prevDeps[info.name] = taken
      invalid == \E d \in Range(info.dependencies) :
                   Lookup(vals, d) \in {Undef, Null, NaN, Str("")}
  IN  /\ info.name \in DOMAIN prevDeps'
      /\ prevDeps'[info.name] = taken
      /\ (same \/ invalid) =>
           /\ (info.name \in DOMAIN formValues') = (info.name \in DOMAIN formValues)
           /\ Lookup(formValues', info.name) = Lookup(formValues, info.name)

OncePerSnapshotWitness ==
  /\ Called("compute")
  /\ DOMAIN formValues = {"price", "doubled", "echo"}
  /\ formValues.price = Dec(2, 0)
  /\ formValues.doubled = Dec(3, 0)
  /\ formValues.echo = Dec(6, 0)

-----------------------------------------------------------------------------
(* Claims about the auto-clear cascade. *)

\* The top-level keys whose value a step changes.
Written == {n \in DOMAIN formValues' : Lookup(formValues', n) # Lookup(formValues, n)}

ExplicitDependencies(n) ==
  UNION { Range(f.dependencies) :
            f \in {g \in Range(formParsed.allFields) : g.name = n /\ Has(g, "dependencies")} }

\* C26: a run of the auto-clear effect writes only null, only to a field
\* that holds a non-empty value and one of whose explicit dependencies
\* differs between the watched snapshot of this render and that of the render
\* before, and to no field already cleared since the last user change; so
\* the cascade ends, also with a cycle of explicit dependencies.
C26_ClearedAtMostOncePerCascade ==
  [][op' = "autoClear" =>
       \A n \in Written :
         /\ Lookup(formValues', n) = Null
         /\ Lookup(formValues, n) \notin {Undef, Null, Str("")}
         /\ \E d \in ExplicitDependencies(n) :
              Lookup(watchedValues(formParsed, formValues), d) # Lookup(prevValues, d)
         /\ n \notin clearedFields]_vars

\* With a depending on b and b on a, a user change has led to the clearing
\* of both, each once, and no effect is due any more.
C26_Witness ==
  /\ Settled
  /\ DOMAIN formValues = {"a", "b"}
  /\ clearedFields = {"a", "b"}
  /\ formValues.a = Null
  /\ formValues.b = Null

-----------------------------------------------------------------------------
(* Claims about the rows of a nested list. *)

\* C27: from a row count within minItems..maxItems, every add, copy and
\* remove keeps the row count within minItems..maxItems; add and copy leave
\* the rows as they are when the count is at maxItems or above, and remove
\* when it is at minItems or below.
C27_RowCountStaysWithinLimits ==
  [][listSchema' # Undef =>
       /\ minItemsOf(listSchema') <= Len(listRows')
       /\ Has(listSchema', "maxItems") => Len(listRows') <= listSchema'.maxItems
       /\ (op' \in {"handleAdd", "handleCopy"} /\ Has(listSchema, "maxItems")
             /\ Len(listRows) >= listSchema.maxItems) => listRows' = listRows
       /\ (op' = "handleRemove" /\ Len(listRows) <= minItemsOf(listSchema))
            => listRows' = listRows]_vars

\* An add at maxItems has left the rows: the last row is not a default row.
C27_Witness ==
  /\ Called("handleAdd")
  /\ Has(listSchema, "maxItems")
  /\ Len(listRows) = listSchema.maxItems
  /\ listRows[Len(listRows)] = FilledRow

-----------------------------------------------------------------------------
(* Claims about asynchronous options. *)

\* C28: the continuation of a request replaces the options of its field only
\* when the request is the one issued last for that field; the response of a
\* request issued before a later one for the field, or before the refs were
\* reset by a schema change, is discarded.
C28_OnlyLatestResponseApplies ==
  [][(op' = "respond" /\ optionsMap' # optionsMap)
       => answered'.number = latest[answered'.field]]_vars

-----------------------------------------------------------------------------
(* Claims relating the validator and the rendered state to the engine. *)

\* C29: for every field and value snapshot the validator's isFieldRequired
\* equals the required flag of computeFieldState on the same snapshot, which
\* is true exactly when the field has a static required rule or its
\* requiredWhen evaluates true.
C29_ValidatorAgreesOnRequired ==
  Called("computeFieldState") =>
    /\ fieldState.required = isFieldRequired(field, values)
    /\ fieldState.required =
         (\/ \E i \in 1..Len(rulesOf(field)) : rulesOf(field)[i].type = "required"
          \/ /\ Has(field, "requiredWhen")
             /\ Truthy(evaluateCondition(field.requiredWhen, values)))

\* A field without a static required rule that its requiredWhen makes
\* required on the snapshot.
C29_Witness ==
  /\ Called("computeFieldState")
  /\ Has(field, "rules")
  /\ ~ \E i \in 1..Len(field.rules) : field.rules[i].type = "required"
  /\ Has(field, "requiredWhen")
  /\ fieldState.required
  /\ isFieldRequired(field, values)

\* The state the engine derives from the complete values of the form.
EngineState == computeFieldState(field, formValues, globalDisabled, globalReadOnly)

\* C30: for a rendered field whose conditions name watched fields only, a
\* nested path such as "a.b" included, computeFieldState on the watched
\* snapshot gives the visible, disabled and required flags it gives on the
\* complete values of the form.
C30_RenderedStateIsEngineState ==
  (Called("render") /\ watchFieldsOf(field) \subseteq watchFields) =>
    /\ fieldState.visible = EngineState.visible
    /\ fieldState.disabled = EngineState.disabled
    /\ fieldState.required = EngineState.required

====
